---- MODULE Spec2Model ----
(***************************************************************************)
(* ekernel: the EFI locator decorator (efi), the Kernel value type and the *)
(* clean and install commands of src/ekernel.py, as a state machine.       *)
(*                                                                         *)
(* The process-wide attributes efi.skip, efi.esp, efi.img, efi.label and   *)
(* efi.bkp live across invocations of the mount-guarded commands.  The     *)
(* environment is the kernel source root, the module root, the files of    *)
(* the EFI System Partition (visible only where it is mounted) with their  *)
(* content, the compiled images, the /usr/src/linux symlink, /etc/fstab,   *)
(* the release of the running kernel and the firmware boot entry table.    *)
(***************************************************************************)
EXTENDS Integers, Sequences, FiniteSets, TLC

\* ---------------------------------------------------------------- bounds

\* most source directories the texts are drawn with
MaxNames == 2
\* largest keep count passed with -k
MaxKeep == 2
\* top-level invocations of a mount-guarded command in one process
MaxInvocations == 2
\* nested invocations made from inside a running command body
MaxNested == 1

\* ------------------------------------------------------ kernel versions

\* A source directory linux-X.Y.Z-gentoo[-rN] is the tuple <<X, Y, Z, N>>,
\* N = 0 when the name has no revision suffix.
K23 == <<5, 15, 23, 0>>
K16 == <<5, 15, 16, 0>>
K3 == <<5, 15, 3, 0>>
K2 == <<5, 15, 2, 0>>
K1r1 == <<5, 15, 1, 1>>
K1 == <<5, 15, 1, 0>>

\* Version.base_version: the numeric triple, revision dropped
BaseVersion(d) == <<d[1], d[2], d[3]>>

\* packaging's Version order of version(name): X.Y.Z-rN is the post-release
\* N of X.Y.Z, so the key is the triple followed by the revision
VersionLess(a, b) ==
    \E i \in 1..Len(a) : a[i] < b[i] /\ \A j \in 1..(i - 1) : a[j] = b[j]

\* ----------------------------------------------------------------- paths

\* a file of the ESP: its directory as the sequence of its components, the
\* kind of its name and, for gentoo-<base>.efi, the version in the name
NoFile == [dir |-> <<>>, kind |-> "none", base |-> <<0, 0, 0>>]
\* a loader path relative to the ESP root, as the loader helper returns it
BootFile == [dir |-> <<"EFI", "Gentoo">>, kind |-> "bootx64", base |-> <<0, 0, 0>>]
OtherFile == [dir |-> <<"EFI", "Other">>, kind |-> "bootx64", base |-> <<0, 0, 0>>]
\* gentoo-<base_version>.efi next to a boot image in directory dir
BkpFile(dir, base) == [dir |-> dir, kind |-> "gentoo", base |-> base]

\* a pathlib.Path: mp is the mount point it starts with ("" = relative)
Path(mp, file) == [mp |-> mp, file |-> file]
\* pathlib's esp / p: an absolute right operand replaces the left one
Join(mp, p) == IF p.mp # "" THEN p ELSE Path(mp, p.file)

MountPoints == {"/boot", "/efi"}

\* /etc/fstab as the locator reads it: per line, whether it is a comment and
\* which of the mount point names occur in its text
FstabBoot == << [comment |-> TRUE, has |-> {"/boot"}],
                [comment |-> FALSE, has |-> {}],
                [comment |-> FALSE, has |-> {"/boot"}] >>
FstabEfi == << [comment |-> FALSE, has |-> {}],
               [comment |-> FALSE, has |-> {"/efi"}] >>
FstabNone == << [comment |-> TRUE, has |-> {"/boot", "/efi"}],
                [comment |-> FALSE, has |-> {}] >>

\* ------------------------------------------------- firmware boot entries

Gentoo == <<"Gentoo">>
Windows == <<"Windows">>
\* f"{efi.label} (fallback)"
FallbackLabel(l) == l \o <<"(fallback)">>

\* Python's `needle in hay` on the label text of a listing line
Contains(hay, needle) ==
    \E i \in 0..(Len(hay) - Len(needle)) :
        \A j \in 1..Len(needle) : hay[i + j] = needle[j]

Entry(num, label, file) == [num |-> num, label |-> label, file |-> file]

\* BootCurrent: 0001, Windows and Gentoo, no fallback entry
FwPlain == [current |-> "0001",
            entries |-> << Entry("0000", Windows, OtherFile),
                           Entry("0001", Gentoo, BootFile) >>]
\* the same with a fallback entry 0003 pointing at the backup image of base
FwFallback(base) ==
    [current |-> "0001",
     entries |-> << Entry("0000", Windows, OtherFile),
                    Entry("0001", Gentoo, BootFile),
                    Entry("0003", FallbackLabel(Gentoo),
                          BkpFile(<<"EFI", "Gentoo">>, base)) >>]
\* no entry carries the id BootCurrent reports
FwNoCurrent == [current |-> "0007",
                entries |-> << Entry("0000", Windows, OtherFile),
                               Entry("0001", Gentoo, BootFile) >>]
\* the current entry's line has no File( token
FwNoLoader == [current |-> "0001",
               entries |-> << Entry("0000", Windows, OtherFile),
                              Entry("0001", Gentoo, NoFile) >>]

\* -------------------------------------------------------------- variables

VARIABLES
    skip,       \* efi.skip
    esp,        \* efi.esp
    img,        \* efi.img
    label,      \* efi.label (<<>> while the attribute is not set)
    bkp,        \* efi.bkp, a dict over the keys "label", "num", "img"
    sources,    \* directories linux-* under Kernel.src
    modules,    \* directories <base>-gentoo under Kernel.modules
    espFiles,   \* files on the EFI System Partition
    espAt,      \* mount points the ESP is mounted on
    linux,      \* target of the /usr/src/linux symlink
    bzImage,    \* content of arch/x86_64/boot/bzImage, per source directory
    srcFiles,   \* .config, .config.old and .newoptions, per source directory
    repo,       \* the git repository that holds the kernel configs
    bytes,      \* content of the files on the EFI System Partition
    release,    \* platform.release() of the running kernel
    device,     \* the SOURCE findmnt reports for the ESP
    fstab,      \* /etc/fstab
    firmware,   \* the firmware's boot entry table
    stack,      \* running invocations, outermost first
    trace,      \* external commands of the current top-level invocation
    pre,        \* the filesystem as the running command body found it
    result,     \* how the last top-level invocation ended
    budget      \* invocations the process may still start

vars == << skip, esp, img, label, bkp, sources, modules, espFiles, espAt,
           linux, bzImage, srcFiles, repo, bytes, release, device, fstab, firmware,
           stack, trace, pre, result, budget >>

procVars == << skip, esp, img, label, bkp >>
fsVars == << sources, modules, espFiles, linux, bzImage, srcFiles, repo, bytes >>
envVars == << espAt, fstab, firmware, release, device >>

\* ---------------------------------------------------------------- helpers

Min(a, b) == IF a < b THEN a ELSE b

\* what is left of the files f describes once only those of S exist
Restrict(f, S) == [x \in S \cap DOMAIN f |-> f[x]]

\* pathlib.Path.exists for a path below an ESP mount point: the file is
\* there only while the partition is mounted on that mount point
Exists(p) == p.mp \in espAt /\ p.file \in espFiles

\* efi.img.parent.glob("gentoo-*")
GlobImages ==
    { Path(img.mp, f) : f \in { g \in espFiles :
        img.mp \in espAt /\ g.kind = "gentoo" /\ g.dir = img.file.dir } }

\* the mount point the fstab scan of the locator settles on ("" = none)
FstabMountPoint(tab) ==
    LET hits == { i \in 1..Len(tab) :
                    ~tab[i].comment /\ tab[i].has \cap MountPoints # {} }
    IN  IF hits = {} THEN ""
        ELSE LET i == CHOOSE h \in hits : \A g \in hits : h <= g
             IN  IF "/boot" \in tab[i].has THEN "/boot" ELSE "/efi"

\* Kernel.bkp and Kernel.modules of the Kernel built from source directory d
KernelBkp(d) == Path(img.mp, BkpFile(img.file.dir, BaseVersion(d)))
KernelModules(d) == BaseVersion(d)

\* Kernel.bootable
Bootable(d) == KernelModules(d) \in modules /\ Exists(KernelBkp(d))

\* Kernel.list(): the source directories, newest version first
RECURSIVE KernelList(_)
KernelList(S) ==
    IF S = {} THEN <<>>
    ELSE LET m == CHOOSE x \in S : \A y \in S : ~VersionLess(x, y)
         IN  <<m>> \o KernelList(S \ {m})

\* a clean that keeps the first `keep` kernels, bootable or not
RetainedAnyKernel(list, keep) ==
    { list[i] : i \in 1..Min(keep, Len(list)) }

\* the retained kernels of clean: the first `keep` bootable ones of the list
RECURSIVE Retained(_, _)
Retained(list, keep) ==
    IF list = <<>> THEN {}
    ELSE IF keep # 0 /\ Bootable(Head(list))
         THEN {Head(list)} \cup Retained(Tail(list), keep - 1)
         ELSE Retained(Tail(list), keep)

\* first listing line that starts with Boot<num> (0 = none)
CurrentIndex(fw) ==
    LET hits == { i \in 1..Len(fw.entries) : fw.entries[i].num = fw.current }
    IN  IF hits = {} THEN 0 ELSE CHOOSE h \in hits : \A g \in hits : h <= g

\* first listing line that contains the fallback label (0 = none)
FallbackIndex(fw, needle) ==
    LET hits == { i \in 1..Len(fw.entries) :
                    Contains(fw.entries[i].label, needle) }
    IN  IF hits = {} THEN 0 ELSE CHOOSE h \in hits : \A g \in hits : h <= g

\* ----------------------------------------------------------------- frames

\* what a clean has printed so far: the paths it lists for deletion and
\* whether it announced the deletion of the fallback boot entry
NoReport == [sources |-> {}, modules |-> {}, images |-> {}, entry |-> FALSE]

\* the locals of one call of a command: those of locator and those of the
\* command body it runs
Frame(cmd, id) ==
    [cmd |-> cmd, id |-> id, pc |-> "entry", guarded |-> FALSE,
     mounted |-> FALSE, bound |-> FALSE, limg |-> NoFile, exc |-> "",
     parsed |-> FALSE, keep |-> 0, dry |-> FALSE,
     kernels |-> {}, rmS |-> {}, rmM |-> {}, rmI |-> {},
     depcleaned |-> {}, report |-> NoReport,
     src |-> K1, fallback |-> FALSE, bootBytes |-> "", bkpPath |-> Path("", NoFile),
     srcGiven |-> FALSE, keepGiven |-> FALSE, stage |-> 1,
     list |-> FALSE, delete |-> FALSE, removals |-> {}]

Depth == Len(stack)
Top == stack[Depth]
SetTop(f) == [stack EXCEPT ![Depth] = f]
Running(pc) == Depth > 0 /\ Top.pc = pc

\* an exception raised before the try block of the locator propagates
Escape(f, e) == [f EXCEPT !.exc = e, !.pc = "return"]
\* an exception raised in the command body passes the finally clause of the
\* locator when this invocation went through it
Raise(f, e) ==
    [f EXCEPT !.exc = e, !.pc = IF f.guarded THEN "finally" ELSE "return"]

\* a subprocess.run call (or the call of the command body f) with its
\* outcome, issued by the invocation on top of the stack
Cmd(name, arg, out) == [cmd |-> name, arg |-> arg, out |-> out, by |-> Top.id]
Log(name, arg, out) == Append(trace, Cmd(name, arg, out))
Outcome(ok) == IF ok THEN "ok" ELSE "failed"

\* BaseException subclasses the cli handler does not catch
IsSystemExit(e) == e \in {"SystemExit: argparse", "SystemExit: 1"}

\* ------------------------------------------------ the locator (efi.locator)

\* the commands that are decorated with @efi
Guarded == {"install", "clean"}

\* the call of a command: locator comes first where the command has it
Start(cmd, id) ==
    IF cmd \in Guarded THEN Frame(cmd, id)
    ELSE [Frame(cmd, id) EXCEPT !.pc = "body"]

\* a command is started from the command line
Invoke ==
    /\ stack = <<>>
    /\ budget.calls > 0
    /\ \E c \in budget.cmds : stack' = << Start(c, budget.started + 1) >>
    /\ trace' = <<>>
    /\ result' = [status |-> "running", err |-> "", id |-> budget.started + 1,
                  mountedAt |-> espAt, listing |-> firmware]
    /\ budget' = [budget EXCEPT !.calls = @ - 1, !.started = @ + 1]
    /\ UNCHANGED << procVars, fsVars, envVars, pre >>

\* a command body calls a mount-guarded command while it is running
NestedInvoke ==
    /\ Running("body")
    /\ budget.nested > 0
    /\ \E c \in budget.cmds :
         stack' = Append(stack, Start(c, budget.started + 1))
    /\ budget' = [budget EXCEPT !.nested = @ - 1, !.started = @ + 1]
    /\ UNCHANGED << procVars, fsVars, envVars, trace, pre, result >>

\* the re-entrancy guard: a call made while efi.skip is set runs the body
\* at once, any other call sets the flag and goes on to locate the ESP
Enter ==
    /\ Running("entry")
    /\ IF skip
       THEN /\ stack' = SetTop([Top EXCEPT !.pc = "body"])
            /\ trace' = Log("call", Top.cmd, "ok")
            /\ skip' = skip
       ELSE /\ stack' = SetTop([Top EXCEPT !.pc = "locate", !.guarded = TRUE])
            /\ trace' = trace
            /\ skip' = TRUE
    /\ UNCHANGED << esp, img, label, bkp, fsVars, envVars, pre, result, budget >>

\* what reading the listing leaves in efi.label, efi.bkp and the local img
Located(fw) ==
    LET ci == CurrentIndex(fw)
        cur == fw.entries[ci]
        label1 == IF ci > 0 THEN cur.label ELSE label
        bkp1 == IF ci > 0
                THEN [bkp EXCEPT !.keys = @ \cup {"label"},
                                 !.label = FallbackLabel(cur.label)]
                ELSE bkp
        fi == FallbackIndex(fw, bkp1.label)
        fb == fw.entries[fi]
        bkp2 == [bkp1 EXCEPT !.keys = @ \cup {"num"}, !.num = fb.num]
        bkp3 == [bkp2 EXCEPT !.keys = @ \cup {"img"}, !.img = Path("", fb.file)]
        found == [label |-> label1, bkp |-> bkp1, bound |-> ci > 0,
                  limg |-> IF ci > 0 THEN cur.file ELSE NoFile, exc |-> ""]
    IN  IF ci > 0 /\ cur.file = NoFile
        THEN [found EXCEPT !.bound = FALSE,
                           !.exc = "RuntimeError: missing boot image"]
        ELSE IF "label" \notin bkp1.keys
        THEN [found EXCEPT !.exc = "KeyError: label"]
        ELSE IF fi = 0 THEN found
        ELSE IF fb.file = NoFile
        THEN [found EXCEPT !.bkp = bkp2,
                           !.exc = "RuntimeError: missing boot image"]
        ELSE [found EXCEPT !.bkp = bkp3]

\* run efibootmgr and analyse its listing
Locate ==
    /\ Running("locate")
    /\ \E ok \in BOOLEAN :
        /\ trace' = Log("efibootmgr", "", Outcome(ok))
        /\ IF ~ok
           THEN /\ stack' = SetTop(Escape(Top, "CalledProcessError: efibootmgr"))
                /\ UNCHANGED << label, bkp >>
           ELSE LET r == Located(firmware)
                IN  /\ label' = r.label
                    /\ bkp' = r.bkp
                    /\ stack' = SetTop(
                         IF r.exc # "" THEN Escape(Top, r.exc)
                         ELSE [Top EXCEPT !.pc = "mount", !.bound = r.bound,
                                          !.limg = r.limg])
    /\ UNCHANGED << skip, esp, img, fsVars, envVars, pre, result, budget >>

\* the results `mount <mp>` can have: done, refused because the partition
\* is mounted there, refused for another reason with an error text, or
\* a non-zero exit without any error text
MountOutcomes(mp) ==
    IF mp \in espAt THEN {"already"} ELSE {"ok", "failed", "silent"}

\* a locator that takes a refused mount for its own
MountedByAnyOutcome(o) == TRUE

\* a locator that forgets the mount it made
MountedByNoOutcome(o) == FALSE

\* the local flag `mounted`: set only after `mount` returned without error
MountedBy(o) == o = "ok"

\* a locator that takes every mount error for "already mounted"
MountErrorIgnored(o) == ""

\* the exception the except clause around `mount` raises ("" = none): an
\* error text with "already mounted on <esp>" in it is not an error, any
\* other text is raised with its first line, which an empty text lacks
MountError(o) ==
    IF o \in {"ok", "already"} THEN ""
    ELSE IF o = "failed" THEN "RuntimeError: mount"
    ELSE "IndexError: mount"

\* mount the ESP unless the boot image is already there, then require the
\* boot image and call the command body
Mount ==
    /\ Running("mount")
    /\ LET mp == FstabMountPoint(fstab)
           call == [Top EXCEPT !.pc = "body"]
       IN  IF Exists(img)
           THEN /\ stack' = SetTop(call)
                /\ trace' = Log("call", Top.cmd, "ok")
                /\ UNCHANGED << esp, img, bkp, espAt >>
           ELSE IF mp = ""
           THEN /\ stack' = SetTop(Escape(Top, "RuntimeError: missing mountpoint"))
                /\ UNCHANGED << esp, img, bkp, espAt, trace >>
           ELSE IF ~Top.bound
           THEN /\ esp' = mp
                /\ stack' = SetTop(Escape(Top, "NameError: img"))
                /\ UNCHANGED << img, bkp, espAt, trace >>
           ELSE /\ esp' = mp
                /\ img' = Path(mp, Top.limg)
                /\ bkp' = IF "img" \in bkp.keys
                          THEN [bkp EXCEPT !.img = Join(mp, @)]
                          ELSE bkp
                /\ \E o \in MountOutcomes(mp) :
                    LET at == IF o = "ok" THEN espAt \cup {mp} ELSE espAt
                        there == mp \in at /\ Top.limg \in espFiles
                        m == Log("mount", mp, o)
                        f == [Top EXCEPT !.mounted = MountedBy(o)]
                    IN  /\ espAt' = at
                        /\ IF MountError(o) # ""
                           THEN /\ stack' = SetTop(Escape(Top, MountError(o)))
                                /\ trace' = m
                           ELSE IF ~there
                           THEN /\ stack' = SetTop(Escape(f, "AssertionError"))
                                /\ trace' = m
                           ELSE /\ stack' = SetTop([f EXCEPT !.pc = "body"])
                                /\ trace' = Append(m, Cmd("call", Top.cmd, "ok"))
    /\ UNCHANGED << skip, label, fsVars, fstab, firmware, release, device, pre, result,
                    budget >>

\* the finally clause: clear the flag and unmount what this call mounted
Finally ==
    /\ Running("finally")
    /\ skip' = FALSE
    /\ IF Top.mounted
       THEN \E ok \in BOOLEAN :
              /\ trace' = Log("umount", esp, Outcome(ok))
              /\ espAt' = IF ok THEN espAt \ {esp} ELSE espAt
              /\ stack' = SetTop(
                   [Top EXCEPT !.pc = "return",
                               !.exc = IF ok THEN @
                                       ELSE "CalledProcessError: umount"])
       ELSE /\ stack' = SetTop([Top EXCEPT !.pc = "return"])
            /\ UNCHANGED << trace, espAt >>
    /\ UNCHANGED << esp, img, label, bkp, fsVars, fstab, firmware, release, device,
                    pre, result, budget >>

\* a handler that reports the error and returns to its caller
ExitsNever(e) == ""

\* what the cli handler passes to its caller for the exception e of the
\* command: nothing for none, the SystemExit it is or sys.exit(1) makes of it
Exits(e) == IF e = "" \/ IsSystemExit(e) THEN e ELSE "SystemExit: 1"

\* the cli handler: an Exception is reported and becomes SystemExit(1); the
\* result goes to the caller, a running body or the command line
Return ==
    /\ Running("return")
    /\ LET e == Top.exc
           out == Exits(e)
       IN  IF Depth = 1
           THEN /\ stack' = <<>>
                /\ result' = [result EXCEPT
                                !.status = IF e = "" THEN "returned" ELSE "exit",
                                !.err = e]
           ELSE /\ stack' = [SubSeq(stack, 1, Depth - 1) EXCEPT ![Depth - 1] =
                               IF out = "" THEN @ ELSE Raise(@, out)]
                /\ result' = result
    /\ UNCHANGED << procVars, fsVars, envVars, trace, pre, budget >>

\* between two commands the boot entries are edited with efibootmgr: the
\* entry the machine was booted from is deleted, BootCurrent still names it
EditEntries ==
    /\ stack = <<>>
    /\ result.status \in {"returned", "exit"}
    /\ budget.edits > 0
    /\ budget.calls > 0
    /\ CurrentIndex(firmware) > 0
    /\ firmware' = [firmware EXCEPT !.entries =
                       SubSeq(@, 1, CurrentIndex(firmware) - 1)
                       \o SubSeq(@, CurrentIndex(firmware) + 1, Len(@))]
    /\ budget' = [budget EXCEPT !.edits = @ - 1]
    /\ UNCHANGED << procVars, fsVars, espAt, fstab, release, device, stack, trace, pre,
                    result >>

\* ------------------------------------------------------------------ clean

\* the filesystem and the firmware as a command body finds them
Snapshot ==
    [sources |-> sources, modules |-> modules, images |-> GlobImages,
     linux |-> linux, firmware |-> firmware, bytes |-> bytes,
     bzImage |-> bzImage]

\* the keep counts -k is given
KeepCounts == (0 - 1)..MaxKeep
\* the keep count of a clean without -k
DefaultKeep == 2

\* the command on top of the stack was called by update
ByUpdate == Depth > 1 /\ stack[Depth - 1].cmd = "update"
\* -k of clean: update hands its own -k on, without one clean keeps two
KeepArgs ==
    IF ~ByUpdate THEN KeepCounts
    ELSE IF stack[Depth - 1].keepGiven THEN {stack[Depth - 1].keep}
    ELSE {DefaultKeep}
\* the flags -l, -d and -n: update passes none of them
FlagArgs == IF ByUpdate THEN {FALSE} ELSE BOOLEAN
\* the ways argparse can end the command: update passes well-formed arguments
ParseErrors == IF ByUpdate THEN {} ELSE {"SystemExit: argparse"}

\* a clean that rejects negative keep counts only
KeepRejectedBelowZero(k) == k < 0

\* a clean that accepts every keep count
KeepRejectedNever(k) == FALSE

\* "at least one bootable kernel must be kept"
KeepRejected(k) == k < 1

\* parse the arguments and reject a keep count below one
CleanArgs ==
    /\ Running("body")
    /\ Top.cmd = "clean"
    /\ pre' = Snapshot
    /\ \/ \E e \in ParseErrors : stack' = SetTop(Raise(Top, e))
       \/ \E k \in KeepArgs, n \in FlagArgs :
            stack' = SetTop(
              LET f == [Top EXCEPT !.parsed = TRUE, !.keep = k, !.dry = n]
              IN  IF KeepRejected(k) THEN Raise(f, "ValueError: keep")
                  ELSE [f EXCEPT !.pc = "select"])
    /\ UNCHANGED << procVars, fsVars, envVars, trace, result, budget >>

\* a clean that keeps the modules directories named by the full version
KeptModulesByRevision(kept) == kept

\* keep["modules"]: the modules directories of the kernels to keep
KeptModules(kept) == { KernelModules(k) : k \in kept }

\* the kernels to keep and the sources, modules and images to remove
CleanSelect ==
    /\ Running("select")
    /\ LET kept == Retained(KernelList(sources), Top.keep)
           keepModules == KeptModules(kept)
           keepImages == { KernelBkp(k) : k \in kept }
       IN  stack' = SetTop([Top EXCEPT
             !.pc = "emerge",
             !.kernels = kept,
             !.rmS = sources \ kept,
             !.rmM = modules \ keepModules,
             !.rmI = GlobImages \ keepImages])
    /\ UNCHANGED << procVars, fsVars, envVars, trace, pre, result, budget >>

\* what `emerge -c gentoo-sources` may take away itself: nothing, or one of
\* the source directories that are not kept
Depcleaned(f) == {{}} \cup { {d} : d \in f.rmS }

\* run the package manager's cleanup unless this is a dry run
CleanEmerge ==
    /\ Running("emerge")
    /\ IF Top.dry
       THEN /\ stack' = SetTop([Top EXCEPT !.pc = "remove"])
            /\ UNCHANGED << sources, trace >>
       ELSE \E ok \in BOOLEAN, gone \in Depcleaned(Top) :
              /\ trace' = Log("emerge", "-c", Outcome(ok))
              /\ sources' = sources \ gone
              /\ stack' = SetTop(
                   LET f == [Top EXCEPT !.depcleaned = gone]
                   IN  IF ok THEN [f EXCEPT !.pc = "remove"]
                       ELSE Raise(f, "CalledProcessError: emerge"))
    /\ bzImage' = Restrict(bzImage, sources')
    /\ srcFiles' = Restrict(srcFiles, sources')
    /\ UNCHANGED << procVars, modules, espFiles, linux, bytes, repo, envVars,
                    pre, result, budget >>

\* a clean that deletes what it lists in a dry run as well
RemovesAlways(f) == TRUE

\* `if args.dry: continue`: a dry run lists a path and leaves it alone
Removes(f) == ~f.dry

\* a clean for which the missing modules directory or backup image of a
\* generation it removes is an error
VanishedOrIncomplete(f) ==
    (f.rmS \ sources) \cup { d \in f.rmS : ~Bootable(d) }

\* the collected paths that are gone when their turn comes: no directory,
\* so unlink is called for them and raises FileNotFoundError
Vanished(f) == f.rmS \ sources

\* list the collected paths and delete them: rmtree for a directory, unlink
\* for anything else
CleanRemove ==
    /\ Running("remove")
    /\ LET all == [Top.report EXCEPT !.sources = Top.rmS, !.modules = Top.rmM,
                                     !.images = Top.rmI]
           next == [Top EXCEPT !.pc = "bootentry", !.report = all]
       IN  IF ~Removes(Top)
           THEN /\ stack' = SetTop(next)
                /\ UNCHANGED << sources, modules, espFiles >>
           ELSE IF Vanished(Top) = {}
           THEN /\ sources' = sources \ Top.rmS
                /\ modules' = modules \ Top.rmM
                /\ espFiles' = espFiles \ { p.file : p \in Top.rmI }
                /\ stack' = SetTop(next)
           ELSE \E miss \in Vanished(Top), done \in SUBSET (Top.rmS \cap sources) :
                /\ sources' = sources \ done
                /\ stack' = SetTop(Raise(
                     [Top EXCEPT !.report.sources = done \cup {miss}],
                     "FileNotFoundError: unlink"))
                /\ UNCHANGED << modules, espFiles >>
    /\ bzImage' = Restrict(bzImage, sources')
    /\ srcFiles' = Restrict(srcFiles, sources')
    /\ bytes' = Restrict(bytes, espFiles')
    /\ UNCHANGED << procVars, linux, repo, envVars, trace, pre, result, budget >>

\* a clean that looks at the fallback image before it deletes anything
\* and forgets the images it collected
DefunctIfMissing(f) == "img" \in bkp.keys /\ ~Exists(bkp.img)

\* the fallback boot entry is defunct: its image is missing or was
\* collected for removal
Defunct(f) == "img" \in bkp.keys /\ (~Exists(bkp.img) \/ bkp.img \in f.rmI)

\* announce and, unless this is a dry run, delete the defunct fallback boot
\* entry
CleanBootEntry ==
    /\ Running("bootentry")
    /\ LET told == [Top EXCEPT !.report.entry = Defunct(Top)]
           done == [told EXCEPT !.pc = IF Top.guarded THEN "finally" ELSE "return"]
       IN  IF Defunct(Top) /\ ~Top.dry
           THEN IF "num" \notin bkp.keys
                THEN /\ stack' = SetTop(Raise(told, "KeyError: num"))
                     /\ UNCHANGED << firmware, trace >>
                ELSE \E ok \in BOOLEAN :
                       /\ trace' = Log("efibootmgr -B", bkp.num, Outcome(ok))
                       /\ firmware' = IF ok
                            THEN [firmware EXCEPT !.entries =
                                    SelectSeq(@, LAMBDA e : e.num # bkp.num)]
                            ELSE firmware
                       /\ stack' = SetTop(
                            IF ok THEN done
                            ELSE Raise(told, "CalledProcessError: efibootmgr -B"))
           ELSE /\ stack' = SetTop(done)
                /\ UNCHANGED << firmware, trace >>
    /\ UNCHANGED << procVars, fsVars, espAt, fstab, release, device, pre, result, budget >>

\* ---------------------------------------------------------------- install

\* the source directories -s is given
Installable == {K3, K2}

\* Kernel.latest(): the head of Kernel.list()
Latest == Head(KernelList(sources))

\* the source directories -s names: update hands its own -s on, and
\* without one the command takes Kernel.latest()
SrcArgs ==
    IF ~ByUpdate THEN Installable \cup {Latest}
    ELSE IF stack[Depth - 1].srcGiven THEN {stack[Depth - 1].src}
    ELSE {Latest}
\* -b of install: update hands its own -b on
BkpArgs == IF ByUpdate THEN {stack[Depth - 1].fallback} ELSE BOOLEAN

\* a release string without <digits>.<digits>.<digits>-gentoo in it
NoRelease == <<>>

\* a copy that creates the file and writes nothing into it
PutEmpty(f, x, c) == [y \in DOMAIN f \cup {x} |-> IF y = x THEN "" ELSE f[y]]

\* shutil.copy: the files f with the content c written to x
Put(f, x, c) == [y \in DOMAIN f \cup {x} |-> IF y = x THEN c ELSE f[y]]

\* the body of the invocation on top of the stack is over
Done(f) == [f EXCEPT !.pc = IF f.guarded THEN "finally" ELSE "return"]

\* an install that copies the image before it switches the symlink
StepCopyFirst(after) ==
    IF after = "args" THEN "copy"
    ELSE IF after = "copy" THEN "eselect"
    ELSE IF after = "eselect" THEN "modules"
    ELSE IF after = "modules" THEN "rebuild"
    ELSE "fallback"

\* the order of the steps of install: what follows the step `after`
Step(after) ==
    IF after = "args" THEN "eselect"
    ELSE IF after = "eselect" THEN "copy"
    ELSE IF after = "copy" THEN "modules"
    ELSE IF after = "modules" THEN "rebuild"
    ELSE "fallback"

\* `if not kernel.bzImage.exists()`
BzImageMissing(d) == d \notin DOMAIN bzImage

\* parse the arguments, build the Kernel, read the running image when a
\* fallback entry is asked for, and require the compiled image
InstallArgs ==
    /\ Running("body")
    /\ Top.cmd = "install"
    /\ pre' = Snapshot
    /\ IF sources = {}
       THEN stack' = SetTop(Raise(Top, "IndexError: latest"))
       ELSE \/ \E e \in ParseErrors : stack' = SetTop(Raise(Top, e))
            \/ \E b \in BkpArgs, s \in SrcArgs :
                 LET f == [Top EXCEPT
                             !.parsed = TRUE, !.fallback = b, !.src = s,
                             !.bootBytes = IF b /\ Exists(img)
                                           THEN bytes[img.file] ELSE ""]
                 IN  stack' = SetTop(
                       IF s \notin sources
                       THEN Raise(f, "ValueError: missing source")
                       ELSE IF b /\ ~Exists(img)
                       THEN Raise(f, "FileNotFoundError: boot image")
                       ELSE IF BzImageMissing(s)
                       THEN Raise(f, "FileNotFoundError: missing bzImage")
                       ELSE [f EXCEPT !.pc = Step("args")])
    /\ UNCHANGED << procVars, fsVars, envVars, trace, result, budget >>

\* eselect kernel set <name>: switch the /usr/src/linux symlink
InstallEselect ==
    /\ Running("eselect")
    /\ \E ok \in BOOLEAN :
         /\ trace' = Log("eselect", Top.src, Outcome(ok))
         /\ linux' = IF ok THEN Top.src ELSE linux
         /\ stack' = SetTop(IF ok THEN [Top EXCEPT !.pc = Step("eselect")]
                            ELSE Raise(Top, "CalledProcessError: eselect"))
    /\ UNCHANGED << procVars, sources, modules, espFiles, bzImage, bytes,
                    srcFiles, repo, envVars, pre, result,
                    budget >>

\* how the two copies of the compiled image can end: a copy into a
\* directory that is not there fails, any copy may fail
CopyOutcomes ==
    IF img.mp \in espAt THEN {"ok", "img failed", "bkp failed"}
    ELSE {"img failed"}

\* copy the compiled image to the boot image and to the backup image
InstallCopy ==
    /\ Running("copy")
    /\ \E o \in CopyOutcomes :
         LET c == bzImage[Top.src]
             b1 == IF o = "img failed" THEN bytes ELSE Put(bytes, img.file, c)
             b2 == IF o = "ok" THEN Put(b1, KernelBkp(Top.src).file, c) ELSE b1
         IN  /\ bytes' = b2
             /\ espFiles' = DOMAIN b2
             /\ stack' = SetTop(IF o = "ok" THEN [Top EXCEPT !.pc = Step("copy")]
                                ELSE Raise(Top, "OSError: copy"))
    /\ UNCHANGED << procVars, sources, modules, linux, bzImage, envVars, trace,
                    srcFiles, repo, pre, result, budget >>

\* make modules_install
InstallModules ==
    /\ Running("modules")
    /\ \E ok \in BOOLEAN :
         /\ trace' = Log("make", "modules_install", Outcome(ok))
         /\ modules' = IF ok THEN modules \cup {KernelModules(Top.src)}
                       ELSE modules
         /\ stack' = SetTop(IF ok THEN [Top EXCEPT !.pc = Step("modules")]
                            ELSE Raise(Top, "CalledProcessError: make"))
    /\ UNCHANGED << procVars, sources, espFiles, linux, bzImage, bytes, envVars,
                    srcFiles, repo, pre, result, budget >>

\* emerge @module-rebuild
InstallRebuild ==
    /\ Running("rebuild")
    /\ \E ok \in BOOLEAN :
         /\ trace' = Log("emerge", "@module-rebuild", Outcome(ok))
         /\ stack' = SetTop(
              IF ~ok THEN Raise(Top, "CalledProcessError: emerge")
              ELSE IF Top.fallback THEN [Top EXCEPT !.pc = Step("rebuild")]
              ELSE Done(Top))
    /\ UNCHANGED << procVars, fsVars, envVars, pre, result, budget >>

\* efi.img.parent.glob("gentoo*.efi") with the content of each file
Matching(c) == { p \in GlobImages : bytes[p.file] = c }

\* f"gentoo-{version(platform.release()).base_version}.efi" next to the
\* boot image
ReleaseBkp == Path(img.mp, BkpFile(img.file.dir, BaseVersion(release)))

\* find the backup image with the content read at the start, or make one
\* named after the running release from the boot image as it is now
InstallFallback ==
    /\ Running("fallback")
    /\ IF Matching(Top.bootBytes) # {}
       THEN /\ \E p \in Matching(Top.bootBytes) :
                 stack' = SetTop([Top EXCEPT !.pc = "findmnt", !.bkpPath = p])
            /\ UNCHANGED << espFiles, bytes >>
       ELSE IF release = NoRelease
       THEN /\ stack' = SetTop(Raise(Top, "AttributeError: groups"))
            /\ UNCHANGED << espFiles, bytes >>
       ELSE \E ok \in BOOLEAN :
            /\ bytes' = IF ok THEN Put(bytes, ReleaseBkp.file, bytes[img.file])
                        ELSE bytes
            /\ espFiles' = DOMAIN bytes'
            /\ stack' = SetTop(
                 IF ok THEN [Top EXCEPT !.pc = "findmnt", !.bkpPath = ReleaseBkp]
                 ELSE Raise(Top, "OSError: copy fallback"))
    /\ UNCHANGED << procVars, sources, modules, linux, bzImage, envVars, trace,
                    srcFiles, repo, pre, result, budget >>

\* findmnt -rno SOURCE <esp>: the disk and the partition of the ESP
InstallFindmnt ==
    /\ Running("findmnt")
    /\ \E ok \in BOOLEAN :
         /\ trace' = Log("findmnt", esp, Outcome(ok))
         /\ stack' = SetTop(IF ok THEN [Top EXCEPT !.pc = "delete"]
                            ELSE Raise(Top, "CalledProcessError: findmnt"))
    /\ UNCHANGED << procVars, fsVars, envVars, pre, result, budget >>

\* `if "num" in efi.bkp`: a fallback entry number is on record
PreviousEntry(b) == "num" \in b.keys

\* efibootmgr -q -b <num> -B: remove the previous fallback entry
InstallDelete ==
    /\ Running("delete")
    /\ IF PreviousEntry(bkp)
       THEN \E ok \in BOOLEAN :
              /\ trace' = Log("efibootmgr -B", bkp.num, Outcome(ok))
              /\ firmware' = IF ok
                   THEN [firmware EXCEPT !.entries =
                           SelectSeq(@, LAMBDA e : e.num # bkp.num)]
                   ELSE firmware
              /\ stack' = SetTop(
                   IF ok THEN [Top EXCEPT !.pc = "create"]
                   ELSE Raise(Top, "CalledProcessError: efibootmgr -B"))
       ELSE /\ stack' = SetTop([Top EXCEPT !.pc = "create"])
            /\ UNCHANGED << firmware, trace >>
    /\ UNCHANGED << procVars, fsVars, espAt, fstab, release, device, pre, result, budget >>

\* the entry numbers the firmware hands out, lowest first
Nums == <<"0000", "0001", "0002", "0003", "0004", "0005", "0006">>
FreeNum(fw) ==
    LET used == { fw.entries[i].num : i \in 1..Len(fw.entries) }
        free == { i \in 1..Len(Nums) : Nums[i] \notin used }
    IN  Nums[CHOOSE i \in free : \A j \in free : i <= j]

\* str(bkp) as the firmware stores it: the path from the root of the file
\* system, mount point included, taken from the root of the partition
MountDir(mp) ==
    IF mp = "/boot" THEN <<"boot">> ELSE IF mp = "/efi" THEN <<"efi">> ELSE <<>>
LoaderArg(p) == [p.file EXCEPT !.dir = MountDir(p.mp) \o @]

\* efibootmgr -q -c -d <disk> -p <part> -L <label> -l <bkp>: create the
\* fallback entry and record its image
InstallCreate ==
    /\ Running("create")
    /\ IF "label" \notin bkp.keys
       THEN /\ stack' = SetTop(Raise(Top, "KeyError: label"))
            /\ UNCHANGED << firmware, trace, bkp >>
       ELSE \E ok \in BOOLEAN :
              /\ trace' = Log("efibootmgr -c", bkp.label, Outcome(ok))
              /\ firmware' = IF ok
                   THEN [firmware EXCEPT !.entries =
                           Append(@, Entry(FreeNum(firmware), bkp.label,
                                           LoaderArg(Top.bkpPath)))]
                   ELSE firmware
              /\ bkp' = IF ok
                        THEN [bkp EXCEPT !.keys = @ \cup {"img"},
                                         !.img = Top.bkpPath]
                        ELSE bkp
              /\ stack' = SetTop(
                   IF ok THEN Done(Top)
                   ELSE Raise(Top, "CalledProcessError: efibootmgr -c"))
    /\ UNCHANGED << skip, esp, img, label, fsVars, espAt, fstab, release, device, pre,
                    result, budget >>

\* ------------------------------------------- the commands update runs first

\* the files of a source directory the commands look at
Config == ".config"
ConfigOld == ".config.old"
NewOptions == ".newoptions"

\* the file name is written into source directory d
Written(d, name) == [srcFiles EXCEPT ![d] = @ \cup {name}]
\* a tracked config that is written differs from the index
Touched(d) ==
    IF d \in repo.tracked THEN [repo EXCEPT !.differs = @ \cup {d}] ELSE repo

\* configure: parse the arguments, build the Kernel, find the config of the
\* current kernel, delete the config with -d, and choose the way to configure
ConfigureArgs ==
    /\ Running("body")
    /\ Top.cmd = "configure"
    /\ IF sources = {}
       THEN /\ stack' = SetTop(Raise(Top, "IndexError: latest"))
            /\ srcFiles' = srcFiles
       ELSE \/ /\ \E e \in ParseErrors : stack' = SetTop(Raise(Top, e))
               /\ srcFiles' = srcFiles
            \/ \E l \in FlagArgs, d \in FlagArgs, s \in SrcArgs :
                 LET f == [Top EXCEPT !.parsed = TRUE, !.src = s, !.list = l,
                                      !.delete = d]
                     kept == s \in sources /\ Config \in srcFiles[s] /\ ~d
                     old == linux \in sources /\ Config \in srcFiles[linux]
                              /\ ~(d /\ linux = s)
                 IN  IF s \notin sources \/ linux \notin sources
                     THEN /\ stack' = SetTop(Raise(f, "ValueError: missing source"))
                          /\ srcFiles' = srcFiles
                     ELSE /\ srcFiles' = IF d THEN [srcFiles EXCEPT ![s] = @ \ {Config}]
                                         ELSE srcFiles
                          /\ stack' = SetTop([f EXCEPT !.pc =
                               IF ~kept /\ old THEN "oldconfig"
                               ELSE IF ~l THEN "menuconfig"
                               ELSE "list"])
    /\ UNCHANGED << procVars, sources, modules, espFiles, linux, bzImage, repo,
                    bytes, envVars, trace, pre, result, budget >>

\* copy the config of the current kernel, store the new options that
\* make listnewconfig prints and, without -l, run make oldconfig
ConfigureOld ==
    /\ Running("oldconfig")
    /\ \E listed \in BOOLEAN, ok \in BOOLEAN :
         LET copied == Written(Top.src, Config)
             stored == [copied EXCEPT ![Top.src] = @ \cup {NewOptions}]
             new == Append(trace, Cmd("make", "listnewconfig", Outcome(listed)))
         IN  IF Top.list
             THEN /\ ok
                  /\ srcFiles' = stored
                  /\ trace' = new
                  /\ stack' = SetTop([Top EXCEPT !.pc = "list"])
             ELSE /\ trace' = Append(new, Cmd("make", "oldconfig", Outcome(ok)))
                  /\ srcFiles' = IF ok THEN [stored EXCEPT ![Top.src] = @ \cup {ConfigOld}]
                                 ELSE stored
                  /\ stack' = SetTop(IF ok THEN Done(Top)
                                     ELSE Raise(Top, "CalledProcessError: make"))
    /\ repo' = Touched(Top.src)
    /\ UNCHANGED << procVars, sources, modules, espFiles, linux, bzImage, bytes,
                    envVars, pre, result, budget >>

\* make menuconfig: the user saves a config or leaves without one
ConfigureMenu ==
    /\ Running("menuconfig")
    /\ \E ok \in BOOLEAN, saved \in BOOLEAN :
         /\ ~ok => ~saved
         /\ trace' = Log("make", "menuconfig", Outcome(ok))
         /\ srcFiles' = IF ~saved THEN srcFiles
                        ELSE IF Config \in srcFiles[Top.src]
                        THEN Written(Top.src, ConfigOld)
                        ELSE Written(Top.src, Config)
         /\ repo' = IF saved THEN Touched(Top.src) ELSE repo
         /\ stack' = SetTop(IF ok THEN Done(Top)
                            ELSE Raise(Top, "CalledProcessError: make"))
    /\ UNCHANGED << procVars, sources, modules, espFiles, linux, bzImage, bytes,
                    envVars, pre, result, budget >>

\* -l: print the stored new options
ConfigureList ==
    /\ Running("list")
    /\ stack' = SetTop(IF NewOptions \in srcFiles[Top.src] THEN Done(Top)
                       ELSE Raise(Top, "FileNotFoundError: newoptions"))
    /\ UNCHANGED << procVars, fsVars, envVars, trace, pre, result, budget >>

\* build: parse the arguments, build the Kernel and require its config
BuildArgs ==
    /\ Running("body")
    /\ Top.cmd = "build"
    /\ IF sources = {}
       THEN stack' = SetTop(Raise(Top, "IndexError: latest"))
       ELSE \/ \E e \in ParseErrors : stack' = SetTop(Raise(Top, e))
            \/ \E s \in SrcArgs :
                 LET f == [Top EXCEPT !.parsed = TRUE, !.src = s]
                 IN  stack' = SetTop(
                       IF s \notin sources
                       THEN Raise(f, "ValueError: missing source")
                       ELSE IF Config \notin srcFiles[s]
                       THEN Raise(f, "FileNotFoundError: missing config")
                       ELSE [f EXCEPT !.pc = "make"])
    /\ UNCHANGED << procVars, fsVars, envVars, trace, pre, result, budget >>

\* make -j <jobs>: the compiled image is there when it succeeds
BuildMake ==
    /\ Running("make")
    /\ \E ok \in BOOLEAN :
         /\ trace' = Log("make", "-j", Outcome(ok))
         /\ bzImage' = IF ok THEN Put(bzImage, Top.src, "fresh") ELSE bzImage
         /\ stack' = SetTop(IF ok THEN Done(Top)
                            ELSE Raise(Top, "CalledProcessError: make"))
    /\ UNCHANGED << procVars, sources, modules, espFiles, linux, srcFiles, repo,
                    bytes, envVars, pre, result, budget >>

\* ----------------------------------------------------------------- commit

\* a change of the index: the config of d is added to it or removed from it
Change(op, d) == [op |-> op, d |-> d]

\* commit: parse the arguments, take the current kernel, require its config
CommitArgs ==
    /\ Running("body")
    /\ Top.cmd = "commit"
    /\ \/ \E e \in ParseErrors : stack' = SetTop(Raise(Top, e))
       \/ \E n \in FlagArgs :
            LET f == [Top EXCEPT !.parsed = TRUE, !.dry = n, !.src = linux]
            IN  stack' = SetTop(
                  IF linux \notin sources
                  THEN Raise(f, "ValueError: missing source")
                  ELSE IF Config \notin srcFiles[linux]
                  THEN Raise(f, "FileNotFoundError: missing config")
                  ELSE [f EXCEPT !.pc = "status"])
    /\ UNCHANGED << procVars, fsVars, envVars, trace, pre, result, budget >>

\* git status, git diff --cached and git rev-parse: the directory is in a
\* repository and nothing is staged
CommitStatus ==
    /\ Running("status")
    /\ LET status == Append(trace, Cmd("git", "status", Outcome(repo.git)))
           cached == Append(status, Cmd("git", "diff --cached",
                                        Outcome(repo.staged = {})))
       IN  IF ~repo.git
           THEN /\ trace' = status
                /\ stack' = SetTop(Raise(Top, "RuntimeError: git status"))
           ELSE IF repo.staged # {}
           THEN /\ trace' = cached
                /\ stack' = SetTop(Raise(Top, "RuntimeError: staged changes"))
           ELSE /\ trace' = Append(cached, Cmd("git", "rev-parse", "ok"))
                /\ stack' = SetTop([Top EXCEPT !.pc = "removals"])
    /\ UNCHANGED << procVars, fsVars, envVars, pre, result, budget >>

\* the tracked configs that are gone from the working tree
Removals ==
    { d \in repo.tracked : d \notin sources \/ Config \notin srcFiles[d] }

\* git diff --name-status and git rm for every config that was removed
CommitRemovals ==
    /\ Running("removals")
    /\ trace' = LET diff == Append(trace, Cmd("git", "diff --name-status", "ok"))
                IN  IF Removals = {} THEN diff
                    ELSE Append(diff, Cmd("git", "rm", "ok"))
    /\ repo' = [repo EXCEPT !.staged = @ \cup { Change("rm", d) : d \in Removals }]
    /\ stack' = SetTop([Top EXCEPT !.pc = "add", !.removals = Removals])
    /\ UNCHANGED << procVars, sources, modules, espFiles, linux, bzImage,
                    srcFiles, bytes, envVars, pre, result, budget >>

\* git ls-files and git diff: a config that is not tracked or differs from
\* the index is added with git add -f
CommitAdd ==
    /\ Running("add")
    /\ LET tracked == Top.src \in repo.tracked
           changed == ~tracked \/ Top.src \in repo.differs
           ls == Append(trace, Cmd("git", "ls-files", Outcome(tracked)))
           diff == IF tracked
                   THEN Append(ls, Cmd("git", "diff", Outcome(~changed)))
                   ELSE ls
       IN  /\ trace' = IF changed THEN Append(diff, Cmd("git", "add", "ok"))
                       ELSE diff
           /\ repo' = IF changed
                      THEN [repo EXCEPT !.staged = @ \cup {Change("add", Top.src)},
                                        !.differs = @ \ {Top.src}]
                      ELSE repo
    /\ stack' = SetTop([Top EXCEPT !.pc = "finish"])
    /\ UNCHANGED << procVars, sources, modules, espFiles, linux, bzImage,
                    srcFiles, bytes, envVars, pre, result, budget >>

\* the index after git commit: the staged changes are the new HEAD
Committed ==
    [repo EXCEPT
       !.tracked = (@ \cup { c.d : c \in { x \in repo.staged : x.op = "add" } })
                   \ { c.d : c \in { x \in repo.staged : x.op = "rm" } },
       !.staged = {}]

\* a dry run takes the config out of the index again, any other run commits
CommitFinish ==
    /\ Running("finish")
    /\ IF Top.dry
       THEN /\ trace' = Log("git", "restore --staged", "ok")
            /\ repo' = [repo EXCEPT
                 !.staged = @ \ {Change("add", Top.src)},
                 !.differs = IF Change("add", Top.src) \in repo.staged
                                /\ Top.src \in repo.tracked
                             THEN @ \cup {Top.src} ELSE @]
            /\ stack' = SetTop(Done(Top))
       ELSE \E ok \in BOOLEAN :
            /\ repo.staged = {} => ~ok
            /\ trace' = Log("git", "commit", Outcome(ok))
            /\ repo' = IF ok THEN Committed ELSE repo
            /\ stack' = SetTop(IF ok THEN Done(Top)
                               ELSE Raise(Top, "RuntimeError: git commit"))
    /\ UNCHANGED << procVars, sources, modules, espFiles, linux, bzImage,
                    srcFiles, bytes, envVars, pre, result, budget >>

\* ----------------------------------------------------------------- update

\* the commands update calls, in the order of its calls
Stages == << "configure", "build", "install", "clean", "commit" >>

\* update parses its arguments and makes the argument lists of its stages
UpdateArgs ==
    /\ Running("body")
    /\ Top.cmd = "update"
    /\ \/ stack' = SetTop(Raise(Top, "SystemExit: argparse"))
       \/ \E s \in {Latest} \cup Installable, b \in BOOLEAN,
             k \in KeepCounts \cup {DefaultKeep}, given \in BOOLEAN :
            /\ ~given => k = DefaultKeep
            /\ stack' = SetTop([Top EXCEPT
                 !.parsed = TRUE, !.pc = "stages", !.stage = 1,
                 !.srcGiven = (s # Latest), !.src = s, !.fallback = b,
                 !.keepGiven = given, !.keep = k])
    /\ UNCHANGED << procVars, fsVars, envVars, trace, pre, result, budget >>

\* update calls its next stage
UpdateStage ==
    /\ Running("stages")
    /\ Top.stage <= Len(Stages)
    /\ stack' = Append(SetTop([Top EXCEPT !.stage = @ + 1]),
                       Start(Stages[Top.stage], budget.started + 1))
    /\ trace' = Log("stage", Stages[Top.stage], "ok")
    /\ budget' = [budget EXCEPT !.started = @ + 1]
    /\ UNCHANGED << procVars, fsVars, envVars, pre, result >>

\* the last stage has returned
UpdateDone ==
    /\ Running("stages")
    /\ Top.stage > Len(Stages)
    /\ stack' = SetTop(Done(Top))
    /\ UNCHANGED << procVars, fsVars, envVars, trace, pre, result, budget >>

\* ---------------------------------------------------------- initial states

\* the attributes as the decorator sets them at import time
ProcInit ==
    /\ skip = FALSE
    /\ esp = "/boot"
    /\ img = Path("/boot", BootFile)
    /\ label = <<>>
    /\ bkp = [keys |-> {}, label |-> <<>>, num |-> "", img |-> Path("", NoFile)]
    /\ stack = <<>>
    /\ trace = <<>>
    /\ result = [status |-> "none", err |-> "", id |-> 0, mountedAt |-> {},
                 listing |-> FwPlain]

Backups(bases) == { BkpFile(<<"EFI", "Gentoo">>, b) : b \in bases }
Bases(S) == { BaseVersion(d) : d \in S }
\* no file, of no content
NoContent == [f \in {} |-> ""]
NoSnapshot ==
    [sources |-> {}, modules |-> {}, images |-> {}, linux |-> K1,
     firmware |-> FwPlain, bytes |-> NoContent, bzImage |-> NoContent]

\* a directory that is in no git repository
NoRepo == [git |-> FALSE, tracked |-> {}, staged |-> {}, differs |-> {}]

\* what findmnt -rno SOURCE prints for the ESP: a partition of a disk whose
\* name has no digit, and partitions of disks whose names have digits
Devices ==
    [ sda1 |-> << "/", "d", "e", "v", "/", "s", "d", "a", "1" >>,
      sdb12 |-> << "/", "d", "e", "v", "/", "s", "d", "b", "1", "2" >>,
      nvme0n1p1 |-> << "/", "d", "e", "v", "/", "n", "v", "m", "e", "0", "n",
                       "1", "p", "1" >>,
      mmcblk0p2 |-> << "/", "d", "e", "v", "/", "m", "m", "c", "b", "l", "k",
                       "0", "p", "2" >> ]

\* image contents: the image of the running kernel, another image that was
\* installed earlier, and a freshly compiled one
Contents == {"running", "earlier", "fresh"}

\* a machine on which no kernel is compiled, booted from the image of its
\* newest backup
NotBuilt ==
    /\ bzImage = NoContent
    /\ bytes = [f \in espFiles |-> "running"]
    /\ release = linux

\* a process that runs several commands, some of them nested, on a machine
\* with two installed kernels, for every state of fstab, mount and firmware
InitEfi ==
    /\ ProcInit
    /\ sources = {K3, K2}
    /\ device = Devices.sda1
    /\ modules = Bases({K3, K2})
    /\ \E boot \in SUBSET {BootFile} : espFiles = boot \cup Backups(Bases({K3, K2}))
    /\ linux = K3
    /\ fstab \in {FstabBoot, FstabEfi, FstabNone}
    /\ espAt \in {{}, {"/boot"}, {"/efi"}}
    /\ firmware \in {FwPlain, FwFallback(BaseVersion(K2)), FwNoCurrent,
                     FwNoLoader}
    /\ NotBuilt
    /\ pre = NoSnapshot
    /\ srcFiles = [d \in sources |-> {Config}]
    /\ repo = NoRepo
    /\ budget = [calls |-> MaxInvocations, nested |-> MaxNested,
                 started |-> 0, edits |-> 1, cmds |-> {"clean"}]

\* the source directories a machine may hold
Generations == {K3, K1r1, K1}

\* one command on a machine with any set of source directories, modules
\* directories and backup images
InitClean ==
    /\ ProcInit
    /\ sources \in (SUBSET Generations) \ {{}}
    /\ device = Devices.sda1
    /\ linux \in sources
    /\ modules \in SUBSET Bases(Generations)
    /\ \E bases \in SUBSET Bases(Generations) :
         espFiles = {BootFile} \cup Backups(bases)
    /\ fstab = FstabBoot
    /\ espAt \in {{}, {"/boot"}}
    /\ firmware \in {FwPlain, FwFallback(BaseVersion(K1))}
    /\ NotBuilt
    /\ pre = NoSnapshot
    /\ srcFiles = [d \in sources |-> {Config}]
    /\ repo = NoRepo
    /\ budget = [calls |-> 1, nested |-> 0, started |-> 0, edits |-> 0,
                 cmds |-> {"clean"}]

\* the machine of the test data: 5.15.23 is unpacked but not built, the
\* other four kernels are built and installed, 5.15.16 is the current one
ScenarioSources == {K23, K16, K3, K2, K1r1}
ScenarioBuilt == {K16, K3, K2, K1r1}
InitScenario ==
    /\ ProcInit
    /\ sources = ScenarioSources
    /\ device = Devices.sda1
    /\ linux = K16
    /\ modules = Bases(ScenarioBuilt)
    /\ espFiles = {BootFile} \cup Backups(Bases(ScenarioBuilt))
    /\ fstab = FstabBoot
    /\ espAt \in {{}, {"/boot"}}
    /\ firmware = FwFallback(BaseVersion(K3))
    /\ NotBuilt
    /\ pre = NoSnapshot
    /\ srcFiles = [d \in sources |-> {Config}]
    /\ repo = NoRepo
    /\ budget = [calls |-> 1, nested |-> 0, started |-> 0, edits |-> 0,
                 cmds |-> {"clean"}]

\* a process that installs and cleans on a machine that runs 5.15.2 and has
\* the sources of 5.15.3 as well: either may be compiled, 5.15.2 may be
\* compiled anew, and its backup may be missing or hold another image than
\* the one the machine was booted from
InitInstall ==
    /\ ProcInit
    /\ sources = Installable
    /\ device = Devices.sda1
    /\ linux = K2
    /\ \E S \in SUBSET {K3}, T \in SUBSET {K2} :
         \E new \in [S -> {"fresh"}], old \in [T -> {"fresh", "running"}] :
            bzImage = [d \in S \cup T |-> IF d \in S THEN new[d] ELSE old[d]]
    /\ modules = Bases({K2})
    /\ \E B \in SUBSET Bases({K2}) :
         \E b \in [Backups(B) -> {"earlier", "running"}] :
            bytes = Put(b, BootFile, "running")
    /\ espFiles = DOMAIN bytes
    /\ release \in {linux, NoRelease}
    /\ fstab = FstabBoot
    /\ espAt \in {{}, {"/boot"}}
    /\ firmware \in {FwPlain, FwFallback(BaseVersion(K2))}
    /\ pre = NoSnapshot
    /\ srcFiles = [d \in sources |-> {Config}]
    /\ repo = NoRepo
    /\ budget = [calls |-> MaxInvocations, nested |-> 0, started |-> 0,
                 edits |-> 0,
                 cmds |-> {"install", "clean"}]

\* the repository of the configs: the config of the current kernel is
\* committed, the index may hold a change the user staged, and the config
\* of the removed 5.15.16 may be committed as well
Repo(staged) ==
    [git |-> TRUE, tracked |-> {K2}, staged |-> staged, differs |-> {}]

\* a process that runs update, or one of the commands update starts with, on
\* a machine that runs 5.15.2, keeps 5.15.1 as well and has unpacked 5.15.3,
\* with or without a config; /usr/src/linux points to 5.15.2, or to the
\* directory of 5.15.16, which was removed
InitUpdate ==
    /\ ProcInit
    /\ sources = {K3, K2, K1}
    /\ device = Devices.sda1
    /\ linux \in {K2, K16}
    /\ modules = Bases({K2, K1})
    /\ espFiles = {BootFile} \cup Backups(Bases({K2, K1}))
    /\ bytes = [f \in espFiles |-> "running"]
    /\ bzImage = [d \in {K2} |-> "running"]
    /\ release = K2
    /\ fstab = FstabBoot
    /\ espAt \in {{}, {"/boot"}}
    /\ firmware = FwPlain
    /\ pre = NoSnapshot
    /\ \E new \in SUBSET {Config} :
         srcFiles = [d \in sources |-> IF d = K3 THEN new ELSE {Config}]
    /\ repo \in {NoRepo, Repo({}), Repo({Change("add", K1)}),
                 [Repo({}) EXCEPT !.tracked = @ \cup {K16}]}
    /\ budget = [calls |-> 1, nested |-> 0, started |-> 0, edits |-> 0,
                 cmds |-> {"update", "configure", "build", "commit"}]

Init == InitEfi \/ InitClean \/ InitScenario \/ InitInstall \/ InitUpdate

Next ==
    \/ Invoke
    \/ NestedInvoke
    \/ Enter
    \/ Locate
    \/ Mount
    \/ CleanArgs
    \/ CleanSelect
    \/ CleanEmerge
    \/ CleanRemove
    \/ CleanBootEntry
    \/ InstallArgs
    \/ InstallEselect
    \/ InstallCopy
    \/ InstallModules
    \/ InstallRebuild
    \/ InstallFallback
    \/ InstallFindmnt
    \/ InstallDelete
    \/ InstallCreate
    \/ ConfigureArgs
    \/ ConfigureOld
    \/ ConfigureMenu
    \/ ConfigureList
    \/ BuildArgs
    \/ BuildMake
    \/ CommitArgs
    \/ CommitStatus
    \/ CommitRemovals
    \/ CommitAdd
    \/ CommitFinish
    \/ UpdateArgs
    \/ UpdateStage
    \/ UpdateDone
    \/ Finally
    \/ Return
    \/ EditEntries

Spec == Init /\ [][Next]_vars

\* ================================================= the texts, as they are read
\*
\* The firmware listing, the names of the source directories and the release
\* strings as the characters the code slices and searches.  A text is the
\* sequence of its characters.

\* the words the parsers look for
Txt ==
    [ bootCurrent |->
          << "B", "o", "o", "t", "C", "u", "r", "r", "e", "n", "t" >>,
      boot |->
          << "B", "o", "o", "t" >>,
      naN |->
          << "N", "a", "N" >>,
      file |->
          << "F", "i", "l", "e" >>,
      fallback |->
          << " ", "(", "f", "a", "l", "l", "b", "a", "c", "k", ")" >>,
      gentoo |->
          << "-", "g", "e", "n", "t", "o", "o" >>,
      linux |->
          << "l", "i", "n", "u", "x", "-" >>,
      label |->
          << "G", "e", "n", "t", "o", "o" >>,
      loader |->
          << "E", "F", "I", "/", "G", "e", "n", "t", "o", "o", "/", "b",
             "o", "o", "t", "x", "6", "4", ".", "e", "f", "i" >> ]
\* the lines of an efibootmgr listing
Line ==
    [ current1 |->
          << "B", "o", "o", "t", "C", "u", "r", "r", "e", "n", "t", ":",
             " ", "0", "0", "0", "1" >>,
      current7 |->
          << "B", "o", "o", "t", "C", "u", "r", "r", "e", "n", "t", ":",
             " ", "0", "0", "0", "7" >>,
      timeout |->
          << "T", "i", "m", "e", "o", "u", "t", ":", " ", "1", " ", "s",
             "e", "c", "o", "n", "d", "s" >>,
      windows |->
          << "B", "o", "o", "t", "0", "0", "0", "0", "*", " ", "W", "i",
             "n", "d", "o", "w", "s", "\t", "H", "D", "(", ")", "/", "F",
             "i", "l", "e", "(", "\\", "E", "F", "I", "\\", "M", "i", "c",
             "r", "o", "s", "o", "f", "t", "\\", "b", "o", "o", "t", "m",
             "g", "f", "w", ".", "e", "f", "i", ")" >>,
      gentoo |->
          << "B", "o", "o", "t", "0", "0", "0", "1", "*", " ", "G", "e",
             "n", "t", "o", "o", "\t", "H", "D", "(", ")", "/", "F", "i",
             "l", "e", "(", "\\", "E", "F", "I", "\\", "G", "e", "n", "t",
             "o", "o", "\\", "b", "o", "o", "t", "x", "6", "4", ".", "e",
             "f", "i", ")" >>,
      gentooBare |->
          << "B", "o", "o", "t", "0", "0", "0", "1", "*", " ", "G", "e",
             "n", "t", "o", "o", "\t", "H", "D", "(", ")", "/", "\\", "E",
             "F", "I", "\\", "G", "e", "n", "t", "o", "o", "\\", "b", "o",
             "o", "t", "x", "6", "4", ".", "e", "f", "i", ")" >>,
      ignore |->
          << "B", "o", "o", "t", "0", "0", "0", "2", "*", " ", "G", "e",
             "n", "t", "o", "o", " ", "(", "i", "g", "n", "o", "r", "e",
             ")", "\t", "H", "D", "(", ")", "/", "F", "i", "l", "e", "(",
             "\\", "E", "F", "I", "\\", "G", "e", "n", "t", "o", "o", "\\",
             "i", "g", "n", "o", "r", "e", ".", "e", "f", "i", ")" >>,
      fallback |->
          << "B", "o", "o", "t", "0", "0", "0", "3", "*", " ", "G", "e",
             "n", "t", "o", "o", " ", "(", "f", "a", "l", "l", "b", "a",
             "c", "k", ")", "\t", "H", "D", "(", ")", "/", "F", "i", "l",
             "e", "(", "\\", "E", "F", "I", "\\", "G", "e", "n", "t", "o",
             "o", "\\", "g", "e", "n", "t", "o", "o", "-", "5", ".", "1",
             "5", ".", "2", ".", "e", "f", "i", ")" >>,
      fallbackOld |->
          << "B", "o", "o", "t", "0", "0", "0", "4", "*", " ", "G", "e",
             "n", "t", "o", "o", " ", "(", "f", "a", "l", "l", "b", "a",
             "c", "k", ")", " ", "o", "l", "d", "\t", "H", "D", "(", ")",
             "/", "F", "i", "l", "e", "(", "\\", "E", "F", "I", "\\", "G",
             "e", "n", "t", "o", "o", "\\", "o", "l", "d", ".", "e", "f",
             "i", ")" >> ]
\* directory names under /usr/src
Name ==
    [ v1 |->
          << "l", "i", "n", "u", "x", "-", "5", ".", "1", "5", ".", "1",
             "-", "g", "e", "n", "t", "o", "o" >>,
      v1r1 |->
          << "l", "i", "n", "u", "x", "-", "5", ".", "1", "5", ".", "1",
             "-", "g", "e", "n", "t", "o", "o", "-", "r", "1" >>,
      v1r2 |->
          << "l", "i", "n", "u", "x", "-", "5", ".", "1", "5", ".", "1",
             "-", "g", "e", "n", "t", "o", "o", "-", "r", "2" >>,
      v2 |->
          << "l", "i", "n", "u", "x", "-", "5", ".", "1", "5", ".", "2",
             "-", "g", "e", "n", "t", "o", "o" >>,
      v10 |->
          << "l", "i", "n", "u", "x", "-", "5", ".", "1", "5", ".", "1",
             "0", "-", "g", "e", "n", "t", "o", "o" >>,
      old |->
          << "l", "i", "n", "u", "x", "-", "5", ".", "1", "5", ".", "2",
             "-", "g", "e", "n", "t", "o", "o", ".", "o", "l", "d" >>,
      next |->
          << "l", "i", "n", "u", "x", "-", "n", "e", "x", "t" >>,
      odd |->
          << "l", "i", "n", "u", "x", "-", "5", "x", "1", "5", "y", "3",
             "-", "g", "e", "n", "t", "o", "o" >> ]
\* release strings and first lines of a .config.old
Reported ==
    [ v16 |->
          << "5", ".", "1", "5", ".", "1", "6", "-", "g", "e", "n", "t",
             "o", "o" >>,
      v1r1 |->
          << "5", ".", "1", "5", ".", "1", "-", "g", "e", "n", "t", "o",
             "o", "-", "r", "1" >>,
      arch |->
          << "6", ".", "1", ".", "0", "-", "a", "r", "c", "h", "1", "-", "1" >>,
      rc |->
          << "5", ".", "1", "5", ".", "1", "-", "g", "e", "n", "t", "o",
             "o", "-", "r", "c", "2" >>,
      headerLine |->
          << "#", " ", "L", "i", "n", "u", "x", "/", "x", "8", "6", " ",
             "5", ".", "1", "5", ".", "1", "6", "-", "g", "e", "n", "t",
             "o", "o", " ", "K", "e", "r", "n", "e", "l", " ", "C", "o",
             "n", "f", "i", "g", "u", "r", "a", "t", "i", "o", "n" >>,
      headerBare |->
          << "#" >> ]

\* the characters of the classes \d and \w, and the pairs of str.lower
Chars ==
    [ digits |-> << "0", "1", "2", "3", "4", "5", "6", "7", "8", "9" >>,
      lower |-> << "a", "b", "c", "d", "e", "f", "g", "h", "i", "j", "k", "l",
                   "m", "n", "o", "p", "q", "r", "s", "t", "u", "v", "w", "x",
                   "y", "z" >>,
      upper |-> << "A", "B", "C", "D", "E", "F", "G", "H", "I", "J", "K", "L",
                   "M", "N", "O", "P", "Q", "R", "S", "T", "U", "V", "W", "X",
                   "Y", "Z" >> ]

\* \d of the regular expression
IsDigit(c) == \E i \in 1..Len(Chars.digits) : Chars.digits[i] = c
\* int() of one digit
DigitValue(c) == (CHOOSE i \in 1..Len(Chars.digits) : Chars.digits[i] = c) - 1
\* \w of the regular expression
IsWord(c) ==
    \/ IsDigit(c)
    \/ c = "_"
    \/ \E i \in 1..Len(Chars.lower) : Chars.lower[i] = c \/ Chars.upper[i] = c
\* str.lower() of one character
Lowered(c) ==
    IF \E i \in 1..Len(Chars.upper) : Chars.upper[i] = c
    THEN Chars.lower[CHOOSE i \in 1..Len(Chars.upper) : Chars.upper[i] = c]
    ELSE c

Least(S) == CHOOSE x \in S : \A y \in S : x <= y
Greatest(S) == CHOOSE x \in S : \A y \in S : x >= y

\* a slice bound as Python reads it: negative counts from the end, and the
\* bound is cut to the text
Clamp(s, i) ==
    IF i < 0 THEN (IF Len(s) + i < 0 THEN 0 ELSE Len(s) + i)
    ELSE IF i > Len(s) THEN Len(s) ELSE i
\* s[i:j]
Slice(s, i, j) == SubSeq(s, Clamp(s, i) + 1, Clamp(s, j))
\* s.find(sub, start): the lowest index at or after start, -1 for none
Find(s, sub, start) ==
    LET hits == { i \in Clamp(s, start)..(Len(s) - Len(sub)) :
                    SubSeq(s, i + 1, i + Len(sub)) = sub }
    IN  IF hits = {} THEN -1 ELSE Least(hits)
\* s.startswith(p)
StartsWith(s, p) == Len(p) <= Len(s) /\ SubSeq(s, 1, Len(p)) = p
\* a replace that keeps the backslashes
ReplacedNothing(s) == s
\* s.replace("\\", "/")
Replaced(s) == [i \in 1..Len(s) |-> IF s[i] = "\\" THEN "/" ELSE s[i]]

\* the first of the lines with the indices hits, where the loop breaks
\* (0 = the loop ends without one)
FirstLine(hits) == IF hits = {} THEN 0 ELSE Least(hits)
\* the indices of the listing's lines
Lines(lines) == 1..Len(lines)

\* the locator's helper: the path inside File(\...) of a listing line,
\* searched from index start
loader(line, start) ==
    LET i == Find(line, Txt.file, start)
    IN  IF i < 0
        THEN [exc |-> "RuntimeError: missing boot image", path |-> << >>]
        ELSE [exc |-> "",
              path |-> Replaced(Slice(line, i + 6, Find(line, << ")" >>, i + 6)))]

\* what reading the lines of the listing leaves in efi.label, efi.bkp (b
\* before) and the local img, and the error it raises
Analysed(lines, b) ==
    LET c == FirstLine({ n \in Lines(lines) : StartsWith(lines[n], Txt.bootCurrent) })
        num == IF c = 0 THEN Txt.naN ELSE Slice(lines[c], 13, 17)
        e == FirstLine({ n \in Lines(lines) : StartsWith(lines[n], Txt.boot \o num) })
        i == Find(lines[e], << " " >>, 0) + 1
        j == Find(lines[e], << "\t" >>, i)
        lab == Slice(lines[e], i, j)
        b1 == IF e = 0 THEN b
              ELSE [b EXCEPT !.keys = @ \cup {"label"},
                             !.label = lab \o Txt.fallback]
        cur == loader(lines[e], j)
        f == FirstLine({ n \in Lines(lines) : Contains(lines[n], b1.label) })
        b2 == [b1 EXCEPT !.keys = @ \cup {"num"}, !.num = Slice(lines[f], 4, 8)]
        fb == loader(lines[f], 9)
        b3 == [b2 EXCEPT !.keys = @ \cup {"img"}, !.img = fb.path]
        found == [label |-> IF e = 0 THEN label ELSE lab, bkp |-> b1,
                  img |-> IF e = 0 THEN << >> ELSE cur.path, exc |-> ""]
    IN  IF e > 0 /\ cur.exc # ""
        THEN [found EXCEPT !.img = << >>, !.exc = cur.exc]
        ELSE IF "label" \notin b1.keys
        THEN [found EXCEPT !.exc = "KeyError: label"]
        ELSE IF f = 0 THEN found
        ELSE IF fb.exc # "" THEN [found EXCEPT !.bkp = b2, !.exc = fb.exc]
        ELSE [found EXCEPT !.bkp = b3]

\* ------------------------------------------------------- version(string)

\* the number of digits the text has from position p on
Run(s, p) ==
    Greatest({ n \in 0..(Len(s) - p + 1) :
                 \A k \in 0..(n - 1) : IsDigit(s[p + k]) } \cup {0})

\* the ways (\d+.\d+.\d+)-gentoo matches in s: the position p of the first
\* digit and the lengths a, b, c of the three numbers; the two . of the
\* expression are not escaped and match any character but a line break
Matches(s) ==
    UNION { UNION { UNION { { << p, a, b, c >> :
        c \in { x \in 1..Run(s, p + a + b + 2) :
                  /\ s[p + a] # "\n" /\ s[p + a + b + 1] # "\n"
                  /\ Slice(s, p + a + b + x + 1, p + a + b + x + 8) = Txt.gentoo } } :
        b \in 1..Run(s, p + a + 1) } :
        a \in 1..Run(s, p) } :
        p \in 1..Len(s) }

\* the match re.search returns: the leftmost one, each number as long as
\* the rest of the expression allows, the earlier number first
Searched(s) ==
    CHOOSE m \in Matches(s) : \A n \in Matches(s) :
        \/ m[1] < n[1]
        \/ m[1] = n[1] /\ m[2] > n[2]
        \/ m[1] = n[1] /\ m[2] = n[2] /\ m[3] > n[3]
        \/ m[1] = n[1] /\ m[2] = n[2] /\ m[3] = n[3] /\ m[4] >= n[4]

\* the optional group (-\w+\d+)? at position p: a dash and the word
\* characters after it up to their last digit, which is not the first of them
Suffix(s, p) ==
    LET w == Greatest({ n \in 0..(Len(s) - p) :
                          \A k \in 1..n : IsWord(s[p + k]) } \cup {0})
        ends == { k \in 2..w : IsDigit(s[p + k]) }
    IN  IF p > Len(s) \/ s[p] # "-" \/ ends = {} THEN << >>
        ELSE SubSeq(s, p, p + Greatest(ends))

\* int() of a text of digits
RECURSIVE Number(_)
Number(ds) ==
    IF ds = << >> THEN 0
    ELSE 10 * Number(SubSeq(ds, 1, Len(ds) - 1)) + DigitValue(ds[Len(ds)])

\* the numbers of a release segment N(.N)*, << >> when the text is none
RECURSIVE Release(_)
Release(t) ==
    LET d == Run(t, 1)
    IN  IF d = 0 THEN << >>
        ELSE IF d = Len(t) THEN << Number(t) >>
        ELSE IF t[d + 1] # "." \/ Release(SubSeq(t, d + 2, Len(t))) = << >>
        THEN << >>
        ELSE << Number(SubSeq(t, 1, d)) >> \o Release(SubSeq(t, d + 2, Len(t)))

\* the spellings packaging accepts for a pre-release and a post-release
Tags ==
    [ a |-> { << "a" >>, << "a", "l", "p", "h", "a" >> },
      b |-> { << "b" >>, << "b", "e", "t", "a" >> },
      rc |-> { << "c" >>, << "r", "c" >>, << "p", "r", "e" >>,
               << "p", "r", "e", "v", "i", "e", "w" >> },
      post |-> { << >>, << "r" >>, << "r", "e", "v" >>,
                 << "p", "o", "s", "t" >> },
      dev |-> { << "d", "e", "v" >> } ]

\* where a version stands among those of its release: a development
\* release, the pre-releases a, b and rc, the release itself, a post-release
Phase(tag) ==
    IF tag \in Tags.dev THEN 0
    ELSE IF tag \in Tags.a THEN 1
    ELSE IF tag \in Tags.b THEN 2
    ELSE IF tag \in Tags.rc THEN 3
    ELSE IF tag \in Tags.post THEN 5
    ELSE -1

\* packaging's Version(text) for a text <release> or <release>-<tag><N>:
\* its release numbers, its phase and the number of the phase.  An epoch and
\* a tag written without the dash are not read: the texts drawn have none.
Version(text) ==
    LET dash == Find(text, << "-" >>, 0)
        head == IF dash < 0 THEN text ELSE Slice(text, 0, dash)
        tail == IF dash < 0 THEN << >> ELSE Slice(text, dash + 1, Len(text))
        digits == Greatest({ n \in 0..Len(tail) :
                    \A k \in 1..n : IsDigit(tail[Len(tail) - n + k]) })
        word == SubSeq(tail, 1, Len(tail) - digits)
        tag == [k \in 1..Len(word) |-> Lowered(word[k])]
        bad == [ok |-> FALSE, release |-> << >>, phase |-> 4, n |-> 0]
    IN  IF Release(head) = << >> THEN bad
        ELSE IF dash < 0
        THEN [ok |-> TRUE, release |-> Release(head), phase |-> 4, n |-> 0]
        ELSE IF digits = 0 \/ Phase(tag) < 0 THEN bad
        ELSE [ok |-> TRUE, release |-> Release(head), phase |-> Phase(tag),
              n |-> Number(SubSeq(tail, Len(tail) - digits + 1, Len(tail)))]

\* version(string): the version in a text, or the error the call raises
version(string) ==
    LET m == Searched(string)
        last == m[1] + m[2] + m[3] + m[4] + 1
        joined == SubSeq(string, m[1], last) \o Suffix(string, last + 8)
    IN  IF Matches(string) = {}
        THEN [exc |-> "AttributeError: groups", version |-> Version(<< >>)]
        ELSE IF ~Version(joined).ok
        THEN [exc |-> "InvalidVersion", version |-> Version(joined)]
        ELSE [exc |-> "", version |-> Version(joined)]

\* the key two versions are compared by: the release filled up with zeros,
\* then the phase and its number
Key(v) ==
    << IF Len(v.release) >= 1 THEN v.release[1] ELSE 0,
       IF Len(v.release) >= 2 THEN v.release[2] ELSE 0,
       IF Len(v.release) >= 3 THEN v.release[3] ELSE 0,
       v.phase, v.n >>

\* a constructor that does not look at the path
KernelOfAnyPath(src) ==
    IF version(src).exc # ""
    THEN [exc |-> "ValueError: illegal source", src |-> src,
          version |-> Version(<< >>)]
    ELSE [exc |-> "", src |-> src, version |-> version(src).version]
\* Kernel(src) for the directory named src under /usr/src
Kernel(src) ==
    IF src \notin sources
    THEN [exc |-> "ValueError: missing source", src |-> src,
          version |-> Version(<< >>)]
    ELSE IF version(src).exc # ""
    THEN [exc |-> "ValueError: illegal source", src |-> src,
          version |-> Version(<< >>)]
    ELSE [exc |-> "", src |-> src, version |-> version(src).version]

\* an order in which the release alone decides
PrecedesByRelease(a, b) ==
    \E i \in 1..3 : Key(a)[i] < Key(b)[i] /\ \A j \in 1..(i - 1) : Key(a)[j] = Key(b)[j]
\* a < b of two versions
Precedes(a, b) == VersionLess(Key(a), Key(b))

\* the orders sorted(..., reverse=True) can return the names in: those in
\* which no version is followed by a greater one
Sorted(names) ==
    { q \in [1..Cardinality(names) -> names] :
        /\ \A i, j \in DOMAIN q : i # j => q[i] # q[j]
        /\ \A i, j \in DOMAIN q :
             i < j => ~Precedes(Kernel(q[i]).version, Kernel(q[j]).version) }

\* ------------------------------------------------ the texts that are drawn

Opt(line) == { << >>, << line >> }
\* efibootmgr listings: with or without a BootCurrent line, the current
\* entry with or without a File( token, other entries around it
Listings ==
    { c \o << Line.timeout >> \o w \o g \o i \o o \o f :
        c \in { << >>, << Line.current1 >>, << Line.current7 >> },
        w \in Opt(Line.windows),
        g \in { << >>, << Line.gentoo >>, << Line.gentooBare >> },
        i \in Opt(Line.ignore),
        o \in Opt(Line.fallbackOld),
        f \in Opt(Line.fallback) }
Names == { Name.v1, Name.v1r1, Name.v1r2, Name.v2, Name.v10, Name.old, Name.next,
           Name.odd }
Releases == { Reported.v16, Reported.v1r1, Reported.arch, Reported.rc, Reported.headerLine,
              Reported.headerBare }

\* nothing is read yet
Unread == result.status = "none"

TextInit ==
    /\ ProcInit
    /\ modules = {}
    /\ espFiles = {}
    /\ espAt = {}
    /\ bzImage = NoContent
    /\ bytes = NoContent
    /\ fstab = FstabBoot
    /\ pre = NoSnapshot
    /\ srcFiles = [d \in {} |-> {}]
    /\ repo = NoRepo
    /\ budget = [calls |-> 0, nested |-> 0, started |-> 0, edits |-> 0,
                 cmds |-> {}]
    /\ \/ /\ firmware \in Listings
          /\ sources = {Name.v2}
          /\ linux = Name.v2
          /\ release = Reported.v16
          /\ device = Devices.sda1
       \/ /\ firmware = << Line.current1, Line.gentoo >>
          /\ sources \in { S \in SUBSET Names : Cardinality(S) <= MaxNames }
          /\ linux \in { Name.v1, Name.v2, Name.old, Name.next }
          /\ release = Reported.v16
          /\ device = Devices.sda1
       \/ /\ firmware = << Line.current1, Line.gentoo >>
          /\ sources = {Name.v2}
          /\ linux = Name.v2
          /\ release \in Releases
          /\ device = Devices.sda1
       \/ /\ firmware = << Line.current1, Line.gentoo >>
          /\ sources = {Name.v2}
          /\ linux = Name.v2
          /\ release = Reported.v16
          /\ device \in { Devices[d] : d \in DOMAIN Devices }

\* the locator reads the listing efibootmgr printed
Analyse ==
    /\ Unread
    /\ LET r == Analysed(firmware, bkp)
       IN  /\ label' = r.label
           /\ bkp' = r.bkp
           /\ result' = [status |-> "listing", err |-> r.exc, value |-> r.img]
    /\ UNCHANGED << skip, esp, img, fsVars, envVars, stack, trace, pre, budget >>

\* version() of a release string or of the first line of a .config.old
ReadVersion ==
    /\ Unread
    /\ result' = [status |-> "version", err |-> version(release).exc,
                  value |-> version(release).version]
    /\ UNCHANGED << procVars, fsVars, envVars, stack, trace, pre, budget >>

\* Kernel.current()
Current ==
    /\ Unread
    /\ result' = [status |-> "kernel", err |-> Kernel(linux).exc,
                  value |-> Kernel(linux)]
    /\ UNCHANGED << procVars, fsVars, envVars, stack, trace, pre, budget >>

\* Kernel.list(): every linux-* directory as a Kernel, newest first
List ==
    /\ Unread
    /\ LET names == { s \in sources : StartsWith(s, Txt.linux) }
       IN  IF \E s \in names : Kernel(s).exc # ""
           THEN result' = [status |-> "list",
                           err |-> "ValueError: illegal source",
                           value |-> << >>]
           ELSE \E q \in Sorted(names) :
                   result' = [status |-> "list", err |-> "", value |-> q]
    /\ UNCHANGED << procVars, fsVars, envVars, stack, trace, pre, budget >>

\* re.search(r"([/a-z]+)(\d+)", text).groups(): the leftmost place where
\* slashes and lower-case letters are followed by digits, each group as long
\* as it can be; no such place leaves None, which has no groups
Groups(s) ==
    LET class(c) == c = "/" \/ \E i \in 1..Len(Chars.lower) : Chars.lower[i] = c
        found == { m \in (1..Len(s)) \X (1..Len(s)) \X (1..Len(s)) :
                     /\ m[1] + m[2] + m[3] - 1 <= Len(s)
                     /\ \A k \in 0..(m[2] - 1) : class(s[m[1] + k])
                     /\ \A k \in 0..(m[3] - 1) : IsDigit(s[m[1] + m[2] + k]) }
        m == CHOOSE x \in found : \A y \in found :
                \/ x[1] < y[1]
                \/ x[1] = y[1] /\ x[2] > y[2]
                \/ x[1] = y[1] /\ x[2] = y[2] /\ x[3] >= y[3]
    IN  IF found = {}
        THEN [exc |-> "AttributeError: groups", disk |-> << >>, part |-> << >>]
        ELSE [exc |-> "",
              disk |-> SubSeq(s, m[1], m[1] + m[2] - 1),
              part |-> SubSeq(s, m[1] + m[2], m[1] + m[2] + m[3] - 1)]

\* install -b: the disk and the partition it hands to efibootmgr -c -d -p,
\* taken from the source findmnt printed
DiskAndPart ==
    /\ Unread
    /\ result' = [status |-> "device", err |-> Groups(device).exc,
                  value |-> [disk |-> Groups(device).disk,
                             part |-> Groups(device).part]]
    /\ UNCHANGED << procVars, fsVars, envVars, stack, trace, pre, budget >>

TextNext == Analyse \/ ReadVersion \/ Current \/ List \/ DiskAndPart

TextSpec == TextInit /\ [][TextNext]_vars

\* ------------------------------------------------------- reading the trace

\* the positions of the trace where invocation id issued command name
Issued(name, id) ==
    { i \in 1..Len(trace) : trace[i].cmd = name /\ trace[i].by = id }
\* the positions of the trace where any invocation issued command name
IssuedByAny(name) == { i \in 1..Len(trace) : trace[i].cmd = name }

\* the last top-level invocation has returned or raised
Idle == stack = <<>> /\ result.status \in {"returned", "exit"}

\* the top-level invocation's own mount command ended with outcome o
MountEnded(o) == \E i \in Issued("mount", result.id) : trace[i].out = o

\* a command body was run by an invocation other than the top-level one
NestedCall == \E i \in IssuedByAny("call") : trace[i].by # result.id

\* ------------------------------------------------------------ the locator

\* C1: a top-level invocation whose own mount command succeeded issues
\* exactly one umount before it returns or raises, on every exit path, the
\* missing boot image after the mount included.
C1_UmountOnEveryExit ==
    (Idle /\ MountEnded("ok")) =>
        Cardinality(Issued("umount", result.id)) = 1

\* C2: a nest of mount-guarded invocations that starts with the ESP not
\* mounted issues exactly one mount and exactly one umount, both by the
\* outer invocation, whoever raises.
C2_NestMountsOnce ==
    (Idle /\ NestedCall /\ result.mountedAt = {}) =>
        /\ Cardinality(IssuedByAny("mount")) = 1
        /\ Cardinality(IssuedByAny("umount")) = 1
        /\ IssuedByAny("mount") = Issued("mount", result.id)
        /\ IssuedByAny("umount") = Issued("umount", result.id)

\* C3 as stated: when mount is refused with "already mounted on <esp>" the
\* body is executed and the invocation issues no umount.
C3_AlreadyMountedRunsBody ==
    (Idle /\ MountEnded("already")) =>
        /\ Issued("call", result.id) # {}
        /\ Issued("umount", result.id) = {}

\* C3 amended: when mount is refused with "already mounted on <esp>" the
\* refusal is not raised and the invocation issues no umount; the body is
\* executed exactly when the boot image is there below the mount point, and
\* otherwise the invocation fails on the boot image check.
C3_AlreadyMountedNoUmount ==
    (Idle /\ MountEnded("already")) =>
        /\ Issued("umount", result.id) = {}
        /\ Issued("call", result.id) # {} <=> Exists(img)
        /\ Issued("call", result.id) = {} => result.err = "AssertionError"

C3_Witness ==
    /\ Idle
    /\ MountEnded("already")
    /\ Issued("call", result.id) # {}
    /\ result.status = "returned"

\* C4: when mount fails with an error text that has no "already mounted on
\* <esp>" in it, the invocation fails with the mount error, the body is
\* never executed and no umount is issued.
C4_MountFailureIsFatal ==
    (Idle /\ MountEnded("failed")) =>
        /\ result.status = "exit"
        /\ result.err = "RuntimeError: mount"
        /\ IssuedByAny("call") = {}
        /\ IssuedByAny("umount") = {}

C4_Witness == Idle /\ MountEnded("failed")

\* ------------------------------------------------------------------ clean

\* the body of the invocation on top of the stack has just ended
BodyOver == Depth > 0 /\ Top.pc = (IF Top.guarded THEN "finally" ELSE "return")

\* a clean that is not a dry run has just completed its body without error
CleanFinished ==
    /\ BodyOver
    /\ Top.cmd = "clean"
    /\ Top.parsed
    /\ ~Top.dry
    /\ Top.exc = ""

\* the generation had its modules directory and its backup image when the
\* body started
WasBootable(d) ==
    KernelModules(d) \in pre.modules /\ KernelBkp(d) \in pre.images

\* the first k bootable generations in descending version order
FirstBootable(k) ==
    { d \in pre.sources :
        /\ WasBootable(d)
        /\ Cardinality({ e \in pre.sources :
                           WasBootable(e) /\ VersionLess(d, e) }) < k }

\* d has a higher major.minor.patch than e
NewerRelease(d, e) ==
    \E i \in 1..3 : e[i] < d[i] /\ \A j \in 1..(i - 1) : e[j] = d[j]

\* nothing that generation d had when the body started has been deleted
Untouched(d) ==
    /\ d \in sources
    /\ KernelModules(d) \in pre.modules => KernelModules(d) \in modules
    /\ KernelBkp(d) \in pre.images => Exists(KernelBkp(d))

\* nothing of generation d is left
Gone(d) ==
    /\ d \notin sources
    /\ KernelModules(d) \notin modules
    /\ ~Exists(KernelBkp(d))

\* C5: a successful non-dry clean never deletes the source tree, the modules
\* directory or the backup image of the generation /usr/src/linux points
\* to, and that generation does not use up one of the keep slots.
C5_CurrentIsProtected ==
    CleanFinished =>
        /\ Untouched(linux)
        /\ LET others == { d \in pre.sources \ {linux} : WasBootable(d) }
           IN  Cardinality(others \cap sources) >=
                   Min(Top.keep, Cardinality(others))

\* C6 as stated: after a successful non-dry clean with keep count k the
\* generations that still have a source tree are the first k bootable ones,
\* these still have all three artifacts, and every other generation has
\* none of the three.
C6_KeepsNewestBootable ==
    CleanFinished =>
        /\ sources = FirstBootable(Top.keep)
        /\ \A d \in sources : Untouched(d) /\ WasBootable(d)
        /\ \A d \in pre.sources \ sources : Gone(d)

\* C6 amended: as stated, but of a generation that is not kept the modules
\* directory and the backup image are left exactly when a kept generation
\* of the same major.minor.patch has the very same paths.
C6_KeepsNewestBootableUnlessShared ==
    CleanFinished =>
        /\ sources = FirstBootable(Top.keep)
        /\ \A d \in sources : Untouched(d) /\ WasBootable(d)
        /\ \A d \in pre.sources \ sources :
            LET shared == \E r \in sources : BaseVersion(r) = BaseVersion(d)
            IN  /\ KernelModules(d) \in modules <=> shared
                /\ Exists(KernelBkp(d)) <=> shared

C6_Witness ==
    /\ CleanFinished
    /\ Cardinality(sources) = Top.keep
    /\ \E d \in pre.sources \ sources :
         /\ WasBootable(d)
         /\ \E r \in sources : BaseVersion(r) = BaseVersion(d)

\* C7: clean removes nothing of a generation that is newer than the current
\* one, complete or not.
C7_NewerIsUntouched ==
    CleanFinished =>
        \A d \in pre.sources : NewerRelease(d, linux) => Untouched(d)

\* C8: with 5.15.23 (source only), 5.15.16 (current), 5.15.3, 5.15.2 and
\* 5.15.1-r1 (all complete) and keep count 2, clean keeps 5.15.16, 5.15.3
\* and 5.15.2, removes 5.15.1-r1 and leaves 5.15.23 alone.
C8_Scenario ==
    ( /\ CleanFinished
      /\ Top.keep = 2
      /\ pre.sources = ScenarioSources
      /\ pre.linux = K16
      /\ \A d \in ScenarioSources : WasBootable(d) <=> d \in ScenarioBuilt ) =>
        /\ sources = {K23, K16, K3, K2}
        /\ \A d \in {K16, K3, K2} : Untouched(d)
        /\ Gone(K1r1)

\* the invocation on top of the stack is a clean given keep count k, and
\* its body has ended
CleanOverWith(k) ==
    /\ BodyOver
    /\ Top.cmd = "clean"
    /\ Top.parsed
    /\ Top.keep = k

\* C9 as stated: clean with keep count 0 completes successfully and keeps
\* the current generation only.
C9_KeepZeroKeepsCurrentOnly ==
    (CleanOverWith(0) /\ ~Top.dry) =>
        /\ Top.exc = ""
        /\ Untouched(linux)
        /\ \A d \in pre.sources \ {linux} : Gone(d)

\* C9 amended: clean with keep count 0 does not complete: it fails with "at
\* least one bootable kernel must be kept" and every generation, the
\* current one and the others, keeps what it had.
C9_KeepZeroIsRejected ==
    CleanOverWith(0) =>
        /\ Top.exc = "ValueError: keep"
        /\ sources = pre.sources
        /\ \A d \in pre.sources : Untouched(d)

C9_Witness == CleanOverWith(0) /\ ~Top.dry /\ Cardinality(sources) > 1

\* C10: clean with a keep count below 1 fails with a non-zero exit before
\* anything is changed: no source tree, modules directory or backup image
\* is deleted, no firmware entry is deleted and the package manager's
\* cleanup is not run.
C10_KeepBelowOneFailsFirst ==
    \A k \in KeepCounts :
        (k < 1 /\ Depth > 0 /\ Top.cmd = "clean" /\ Top.parsed /\ Top.keep = k) =>
            /\ Top.pc \in {"finally", "return"}
            /\ Top.exc # "" /\ ~IsSystemExit(Top.exc)
            /\ sources = pre.sources
            /\ modules = pre.modules
            /\ \A p \in pre.images : p.file \in espFiles
            /\ firmware = pre.firmware
            /\ Issued("emerge", Top.id) = {}
            /\ Issued("efibootmgr -B", Top.id) = {}

C10_Witness ==
    /\ Depth = 1
    /\ Top.parsed
    /\ Top.keep < 1
    /\ Top.pc = "return"
    /\ Issued("mount", Top.id) # {}

\* a clean with parsed arguments is running or has just ended its body
CleanParsed == Depth > 0 /\ Top.cmd = "clean" /\ Top.parsed

\* the backup images that were there when the body started and are deleted
RemovedImages == { p \in pre.images : p.file \notin espFiles }

ToRemove(k) ==
    [sources |-> pre.sources \ FirstBootable(k),
     modules |-> pre.modules \ { KernelModules(d) : d \in FirstBootable(k) },
     images |-> pre.images \ { KernelBkp(d) : d \in FirstBootable(k) }]

\* the fallback image recorded for this invocation was missing when the
\* body started, or is among the images a clean with keep count k removes
ToDeleteEntry(k) ==
    /\ "img" \in bkp.keys
    /\ \/ bkp.img.mp \notin espAt
       \/ bkp.img.file \notin DOMAIN pre.bytes
       \/ bkp.img \in ToRemove(k).images

\* C12: for every initial state and keep count, the paths a dry-run clean
\* reports for deletion are the paths a non-dry clean started from the same
\* state deletes, and the dry run reports the deletion of the boot entry
\* exactly when the non-dry run executes one: both are the same function
\* of the initial state and the keep count.
C12_DryRunReportsWhatCleanDeletes ==
    (CleanParsed /\ BodyOver /\ Top.exc = "") =>
        IF Top.dry
        THEN /\ Top.report.sources = ToRemove(Top.keep).sources
             /\ Top.report.modules = ToRemove(Top.keep).modules
             /\ Top.report.images = ToRemove(Top.keep).images
             /\ Top.report.entry <=> ToDeleteEntry(Top.keep)
        ELSE /\ pre.sources \ sources = ToRemove(Top.keep).sources
             /\ pre.modules \ modules = ToRemove(Top.keep).modules
             /\ RemovedImages = ToRemove(Top.keep).images
             /\ Issued("efibootmgr -B", Top.id) # {} <=> ToDeleteEntry(Top.keep)

C12_Witness ==
    /\ CleanParsed
    /\ BodyOver
    /\ Top.exc = ""
    /\ ~Top.dry
    /\ RemovedImages # {}
    /\ Exists(KernelBkp(linux))
    /\ bkp.img \in RemovedImages
    /\ Issued("efibootmgr -B", Top.id) # {}

\* the entry of the listing the body started with that carries the fallback
\* label of the current entry (0 = none)
ListedFallback ==
    IF "label" \in bkp.keys THEN FallbackIndex(pre.firmware, bkp.label) ELSE 0

\* C13: a non-dry clean deletes the fallback boot entry if and only if the
\* listing has a fallback entry whose loader file is not on the ESP or is
\* one of the backup images this run removed; the fallback entry of a
\* retained generation whose file is there is never deleted, whether or
\* not the ESP was mounted when clean started.
C13_EntryDeletedIffDefunct ==
    CleanFinished =>
        ( Issued("efibootmgr -B", Top.id) # {} <=>
            /\ ListedFallback > 0
            /\ LET file == pre.firmware.entries[ListedFallback].file
               IN  \/ file \notin DOMAIN pre.bytes
                   \/ \E p \in RemovedImages : p.file = file )

\* a generation that is not among the first k bootable ones had no modules
\* directory or no backup image when the body started
RemovesIncomplete(k) ==
    \E d \in pre.sources \ FirstBootable(k) : ~WasBootable(d)

\* C14: the missing modules directory or backup image of a generation that
\* clean removes is not an error: the run fails on a missing path only when
\* the package manager took a selected source directory away, and it ends
\* with the same remaining artifacts as any other run.
C14_MissingLeftoversAreNoError ==
    (CleanParsed /\ ~Top.dry /\ RemovesIncomplete(Top.keep)) =>
        /\ Top.exc = "FileNotFoundError: unlink" => Top.depcleaned # {}
        /\ CleanFinished =>
            /\ sources = FirstBootable(Top.keep)
            /\ \A d \in pre.sources \ sources :
                 (KernelModules(d) \in modules \/ Exists(KernelBkp(d))) =>
                     \E r \in sources : BaseVersion(r) = BaseVersion(d)

C14_Witness ==
    /\ CleanFinished
    /\ sources # {}
    /\ \E d \in pre.sources \ sources :
         /\ KernelModules(d) \notin pre.modules
         /\ KernelBkp(d) \in pre.images
         /\ Gone(d)

\* ---------------------------------------------------------------- install

\* an install with parsed arguments is running or has just ended its body
InstallParsed == Depth > 0 /\ Top.cmd = "install" /\ Top.parsed

\* an install has just completed its body without error
InstallFinished == InstallParsed /\ BodyOver /\ Top.exc = ""

\* the positions of the trace where the running invocation issued command
\* name and it succeeded
Succeeded(name) == { i \in Issued(name, Top.id) : trace[i].out = "ok" }

\* C15: install of a generation whose compiled image is absent fails with
\* the missing-bzImage error before it changes anything: the symlink is not
\* switched, no image is written, no module installation or rebuild is
\* started, no firmware entry is deleted or created, and an ESP mounted by
\* this invocation is unmounted again.
C15_MissingBzImageFailsFirst ==
    ( /\ InstallParsed
      /\ Top.src \in pre.sources
      /\ Top.src \notin DOMAIN pre.bzImage ) =>
        /\ Top.pc \in {"finally", "return"}
        /\ BodyOver => Top.exc = "FileNotFoundError: missing bzImage"
        /\ linux = pre.linux
        /\ bytes = pre.bytes
        /\ modules = pre.modules
        /\ firmware = pre.firmware
        /\ \A c \in {"eselect", "make", "emerge", "efibootmgr -B", "efibootmgr -c"} :
             Issued(c, Top.id) = {}
        /\ (Top.mounted /\ Top.pc = "return") => Issued("umount", Top.id) # {}

\* the file is on the partition and holds content c
Holds(file, c) == file \in DOMAIN bytes /\ bytes[file] = c

\* the boot image and the backup image of the generation being installed
\* hold its compiled image
Copied ==
    /\ Holds(img.file, bzImage[Top.src])
    /\ Holds(KernelBkp(Top.src).file, bzImage[Top.src])

\* the errors of the fallback entry steps
FallbackErrors ==
    {"AttributeError: groups", "OSError: copy fallback",
     "CalledProcessError: findmnt", "CalledProcessError: efibootmgr -B",
     "CalledProcessError: efibootmgr -c", "KeyError: label"}

\* C16 as stated: install copies the image to the boot image and the
\* backup, then switches the symlink, then (with -b) reconciles the
\* fallback entry, then triggers the module rebuild; a failed copy leaves
\* the symlink unchanged and a failed fallback reconciliation leaves the
\* module rebuild untriggered.
C16_CopyThenSymlinkThenFallbackThenRebuild ==
    InstallParsed =>
        /\ Issued("eselect", Top.id) # {} => Copied
        /\ Top.exc = "OSError: copy" => linux = pre.linux
        /\ Issued("emerge", Top.id) # {} =>
             (Top.fallback => Succeeded("efibootmgr -c") # {})
        /\ Top.exc \in FallbackErrors => Issued("emerge", Top.id) = {}

\* C16 amended: install switches the symlink, then copies the image to the
\* boot image and the backup, then installs the modules and triggers the
\* module rebuild, then (with -b) reconciles the fallback entry; a failed
\* symlink switch leaves the images unwritten, a failed copy leaves the
\* symlink switched and the modules not installed, and a failed fallback
\* reconciliation comes after the module rebuild.
C16_SymlinkThenCopyThenRebuildThenFallback ==
    InstallParsed =>
        /\ bytes # pre.bytes => (Succeeded("eselect") # {} /\ linux = Top.src)
        /\ Top.exc = "CalledProcessError: eselect" =>
             (bytes = pre.bytes /\ linux = pre.linux)
        /\ Top.exc = "OSError: copy" =>
             (linux = Top.src /\ Issued("make", Top.id) = {})
        /\ Issued("make", Top.id) # {} => Copied
        /\ Issued("emerge", Top.id) # {} => Succeeded("make") # {}
        /\ \A c \in {"findmnt", "efibootmgr -B", "efibootmgr -c"} :
             Issued(c, Top.id) # {} => (Top.fallback /\ Succeeded("emerge") # {})
        /\ Top.exc \in FallbackErrors => Succeeded("emerge") # {}

C16_Witness ==
    /\ InstallFinished
    /\ Top.fallback
    /\ Succeeded("efibootmgr -c") # {}
    /\ bytes # pre.bytes
    /\ linux # pre.linux

\* the external commands of the trace, in the order they were issued
RECURSIVE Commands(_)
Commands(t) ==
    IF t = <<>> THEN <<>>
    ELSE IF Head(t).cmd = "call" THEN Commands(Tail(t))
    ELSE << <<Head(t).cmd, Head(t).arg>> >> \o Commands(Tail(t))

\* C17: a successful install started with the ESP unmounted issues its
\* external commands in exactly this order: the efibootmgr listing, mount,
\* eselect kernel set <source>, make modules_install, emerge
\* @module-rebuild, then only with -b findmnt, the efibootmgr delete of
\* the recorded fallback entry and the efibootmgr create, and umount last.
C17_CommandOrder ==
    ( /\ InstallParsed
      /\ Depth = 1
      /\ Top.pc = "return"
      /\ Top.exc = ""
      /\ result.mountedAt = {} ) =>
        LET first == << <<"efibootmgr", "">>, <<"mount", esp>>,
                        <<"eselect", Top.src>>, <<"make", "modules_install">>,
                        <<"emerge", "@module-rebuild">> >>
            delete == IF Issued("efibootmgr -B", Top.id) # {}
                      THEN << <<"efibootmgr -B", bkp.num>> >> ELSE <<>>
            entry == IF Top.fallback
                     THEN << <<"findmnt", esp>> >> \o delete \o
                          << <<"efibootmgr -c", bkp.label>> >>
                     ELSE <<>>
        IN  Commands(trace) = first \o entry \o << <<"umount", esp>> >>

C17_Witness ==
    /\ InstallParsed
    /\ Depth = 1
    /\ Top.pc = "return"
    /\ Top.exc = ""
    /\ result.mountedAt = {}
    /\ Top.fallback
    /\ Issued("efibootmgr -B", Top.id) # {}

\* C18: after a successful install of generation K the boot image and K's
\* backup image gentoo-<major>.<minor>.<patch>.efi both exist with the
\* content of K's compiled image, and /usr/src/linux designates K.
C18_InstalledImages ==
    InstallFinished =>
        /\ Copied
        /\ KernelBkp(Top.src).file = BkpFile(img.file.dir, BaseVersion(Top.src))
        /\ linux = Top.src

C18_Witness ==
    /\ InstallFinished
    /\ Top.fallback
    /\ pre.linux # Top.src
    /\ KernelBkp(Top.src).file \notin DOMAIN pre.bytes
    /\ Top.bkpPath \notin pre.images

\* the number of the fallback entry in the listing this invocation read
ListedNum == pre.firmware.entries[ListedFallback].num

\* C19: in a successful install with -b, whatever was invoked before in
\* the process, a fallback entry is deleted if and only if the listing
\* read by this invocation has a fallback entry, the number deleted is that
\* entry's number, the delete precedes the create, and exactly one create
\* is issued, with the label "<current entry label> (fallback)".
C19_DeleteIffListed ==
    (InstallFinished /\ Top.fallback) =>
        /\ Issued("efibootmgr -B", Top.id) # {} <=> ListedFallback > 0
        /\ \A i \in Issued("efibootmgr -B", Top.id) :
             /\ trace[i].arg = ListedNum
             /\ \A j \in Issued("efibootmgr -c", Top.id) : i < j
        /\ Cardinality(Issued("efibootmgr -c", Top.id)) = 1
        /\ \A j \in Issued("efibootmgr -c", Top.id) :
             trace[j].arg = FallbackLabel(label)

\* C20: after a successful install with -b the file the new fallback entry
\* was created for holds the content the boot image had when the install
\* started, whether a backup file matched that content or a backup named
\* after the running release was made.
C20_FallbackIsRunningImage ==
    (InstallFinished /\ Top.fallback) =>
        Holds(Top.bkpPath.file, pre.bytes[img.file])

\* ---------------------------------------------------- reading the listing

\* the listing efibootmgr printed has the line l
Listed(l) == \E i \in 1..Len(firmware) : firmware[i] = l
\* the locator has read the listing
ListingRead == result.status = "listing"
\* the label of an entry line: the text between the id marker and the tab
LabelOf(l) == Slice(l, Find(l, << " " >>, 0) + 1, Find(l, << "\t" >>, 0))
\* the entry lines whose label is exactly "<current label> (fallback)"
ExactFallback ==
    { i \in 1..Len(firmware) :
        /\ StartsWith(firmware[i], Txt.boot)
        /\ LabelOf(firmware[i]) = label \o Txt.fallback }

C24_FallbackHasExactLabel ==
    ListingRead /\ result.err = "" =>
        /\ "num" \in bkp.keys <=> ExactFallback # {}
        /\ "num" \in bkp.keys =>
             \E i \in ExactFallback : Slice(firmware[i], 4, 8) = bkp.num

\* ------------------------------------------------------ reading versions

\* the matches whose two separators are dots: <digits>.<digits>.<digits>-gentoo
DottedMatches(s) ==
    { m \in Matches(s) :
        s[m[1] + m[2]] = "." /\ s[m[1] + m[2] + m[3] + 1] = "." }
\* a name linux-X.Y.Z-gentoo or linux-X.Y.Z-gentoo-rN, nothing before or after
WellFormed(name) ==
    \E m \in DottedMatches(name) :
        LET e == m[1] + m[2] + m[3] + m[4] + 9
        IN  /\ SubSeq(name, 1, m[1] - 1) = Txt.linux
            /\ \/ e = Len(name) + 1
               \/ /\ e + 2 <= Len(name)
                  /\ name[e] = "-" /\ name[e + 1] = "r"
                  /\ Run(name, e + 2) = Len(name) - e - 1
\* the revision of a version of such a name, -1 for none
Revision(v) == IF v.phase = 5 THEN v.n ELSE -1
\* the numeric triple of a is smaller than that of b, number by number
TripleLess(a, b) ==
    VersionLess(SubSeq(Key(a), 1, 3), SubSeq(Key(b), 1, 3))
\* Kernel.list() has returned the names
ListRead == result.status = "list" /\ result.err = ""
\* the version of the i-th name returned
Listed_(i) == Kernel(result.value[i]).version

\* C27: the versions of linux-X.Y.Z-gentoo[-rN] names are ordered by the
\* numeric triple alone, number by number: names that differ only in the
\* revision compare as equal, so the revision decides no position in
\* Kernel.list and not what Kernel.latest returns
C27_OrderedByTripleOnly ==
    ListRead => \A i, j \in 1..Len(result.value) :
        /\ i < j => ~TripleLess(Listed_(i), Listed_(j))
        /\ Listed_(i).release = Listed_(j).release
             => ~Precedes(Listed_(i), Listed_(j))

\* C27, amended: the versions are ordered by the numeric triple, number by
\* number, and names of the same triple by their revision, the name without
\* a revision first and -rM before -rN for M < N: in Kernel.list the higher
\* revision comes first, and it is what Kernel.latest returns
C27_OrderedByTripleThenRevision ==
    ListRead => \A i, j \in 1..Len(result.value) :
        i < j =>
            \/ TripleLess(Listed_(j), Listed_(i))
            \/ /\ Listed_(i).release = Listed_(j).release
               /\ Revision(Listed_(i)) >= Revision(Listed_(j))

C27_Witness ==
    /\ ListRead
    /\ Len(result.value) = 2
    /\ result.value[1] = Name.v1r1
    /\ result.value[2] = Name.v1

\* C28: a text without <digits>.<digits>.<digits>-gentoo fails to parse with
\* the dedicated unparsable-version error, never with a generic one, in a
\* direct call of version as in the construction of a Kernel
C28_UnparsableIsDedicatedError ==
    /\ result.status = "version" /\ DottedMatches(release) = {}
        => result.err \notin {"", "AttributeError: groups"}
    /\ result.status = "kernel" /\ linux \in sources /\ DottedMatches(linux) = {}
        => result.err = "ValueError: illegal source"

\* C30: constructing a Kernel fails with a ValueError when the path does not
\* exist (missing source) or its name is not linux-X.Y.Z-gentoo[-rN] (illegal
\* source); Kernel.current() fails with the missing-source error once the
\* directory the symlink points to is removed
C30_IllFormedNameFails ==
    result.status = "kernel" =>
        /\ linux \notin sources => result.err = "ValueError: missing source"
        /\ linux \in sources /\ ~WellFormed(linux)
             => result.err = "ValueError: illegal source"

\* C30, amended: the construction fails with the illegal-source error when
\* no version can be read from the name, as for every name without three
\* runs of digits, separated by single characters, before -gentoo; a name
\* that only contains a version, like linux-5.15.2-gentoo.old, is accepted
C30_UnreadableNameFails ==
    result.status = "kernel" =>
        /\ linux \notin sources => result.err = "ValueError: missing source"
        /\ linux \in sources /\ Matches(linux) = {}
             => result.err = "ValueError: illegal source"
        /\ linux \in sources /\ linux = Name.old
             => result.err = "" /\ result.value.version.release = << 5, 15, 2 >>

C30_Witness ==
    /\ result.status = "kernel"
    /\ linux = Name.v1
    /\ sources = {Name.v2}
    /\ result.err = "ValueError: missing source"

\* --------------------------------------------- listings without a loader

\* no entry of the listing carries the id BootCurrent reports, as the last
\* invocation was started
NoCurrentListed == CurrentIndex(result.listing) = 0
\* the line of the current entry has no File( token
NoLoaderListed ==
    /\ CurrentIndex(result.listing) > 0
    /\ result.listing.entries[CurrentIndex(result.listing)].file = NoFile
\* no efibootmgr call of the last invocation failed
ListingPrinted ==
    \A i \in IssuedByAny("efibootmgr") : trace[i].out = "ok"

\* C25: when no entry line carries the id of BootCurrent, a mount-guarded
\* command fails, attempts no mount and does not run its body, after any
\* earlier invocations of the process and whether or not the ESP is mounted
C25_NoCurrentEntryFails ==
    Idle /\ NoCurrentListed =>
        /\ result.status = "exit"
        /\ IssuedByAny("mount") = {}
        /\ IssuedByAny("call") = {}

\* C26: when the line of the current entry has no File( token, the
\* mount-guarded command fails with the missing-boot-image error before a
\* mount is attempted and before the command body runs
C26_NoLoaderFailsBeforeMount ==
    Idle /\ NoLoaderListed /\ ListingPrinted =>
        /\ result.status = "exit"
        /\ result.err = "RuntimeError: missing boot image"
        /\ IssuedByAny("mount") = {}
        /\ IssuedByAny("call") = {}


\* ----------------------------------------------------------------- update

\* the top-level command of the process is update
UpdateRuns == Depth > 0 /\ stack[1].cmd = "update"
\* the positions of the trace where update called a stage
StageStarts == IssuedByAny("stage")
\* the number of stages update has called up to position i of the trace
StageOf(i) == Cardinality({ j \in StageStarts : j <= i })
\* a stage of update has failed and its handler is about to exit
StageFailed == UpdateRuns /\ Depth = 2 /\ Top.pc = "return" /\ Top.exc # ""
\* update is about to exit with an error
UpdateFailed == UpdateRuns /\ Depth = 1 /\ Top.pc = "return" /\ Top.exc # ""
\* the stages update has called are the first of configure, build, install,
\* clean and commit, every command was issued by the stage called last, and
\* the stage that runs is that stage
StagesInOrder ==
    UpdateRuns =>
      /\ \A i \in StageStarts :
           StageOf(i) <= Len(Stages) /\ trace[i].arg = Stages[StageOf(i)]
      /\ \A i \in 1..Len(trace) :
           trace[i].cmd # "stage" =>
             StageOf(i) >= 1 /\ trace[i].by = result.id + StageOf(i)
      /\ Depth <= 2
      /\ Depth = 2 =>
           /\ StageStarts # {}
           /\ Top.cmd = Stages[Cardinality(StageStarts)]
           /\ Top.id = result.id + Cardinality(StageStarts)
\* a failed stage ends update at once: no command follows, update exits with
\* a status that is not zero, and the files, the boot entries and the
\* repository stay as the stages left them
FailureAborts ==
    /\ StageFailed =>
         /\ Len(stack') = 1
         /\ stack'[1].pc = "return"
         /\ stack'[1].exc = "SystemExit: 1"
         /\ UNCHANGED << fsVars, firmware, trace >>
    /\ UpdateFailed =>
         /\ stack' = <<>>
         /\ result'.status = "exit"
         /\ IsSystemExit(result'.err)
         /\ UNCHANGED << fsVars, firmware, trace >>

\* C21: update runs configure, build, install, clean and commit in this
\* order, each after the one before has finished; when a stage fails no
\* command of a later stage is run, update exits with a status that is not
\* zero, and what the earlier stages changed is not rolled back.
C21_StagesInOrderAndAbort == []StagesInOrder /\ [][FailureAborts]_vars

\* an update has exited because its clean failed: the kernel its install
\* selected is still selected and still has its backup image
C21_Witness ==
    /\ Idle
    /\ result.status = "exit"
    /\ Cardinality(StageStarts) = 4
    /\ linux = K3
    /\ Exists(KernelBkp(K3))
    /\ \A i \in IssuedByAny("git") : FALSE

\* C22: a complete successful update that was started with the ESP
\* unmounted issues exactly one mount command and exactly one umount
\* command in total.
C22_OneMountOneUmount ==
    ( /\ Idle
      /\ result.status = "returned"
      /\ Cardinality(StageStarts) = Len(Stages)
      /\ result.mountedAt = {} )
    => /\ Cardinality(IssuedByAny("mount")) = 1
       /\ Cardinality(IssuedByAny("umount")) = 1


\* --------------------------------------------------- install, then clean

\* a retained generation has the major.minor.patch of d, and with it the
\* modules directory and the backup image of d
SharedWithRetained(d) == \E r \in sources : BaseVersion(r) = BaseVersion(d)

\* C29 as stated: when a successful install of K has finished its body K is
\* bootable, and when a successful non-dry clean has removed K the source
\* tree, the modules directory and the backup image of K are all absent and
\* K is not bootable, whatever other generations are present.
C29_InstalledBootableRemovedGone ==
    /\ InstallFinished => Bootable(Top.src)
    /\ CleanFinished => \A d \in Top.rmS : Gone(d) /\ ~Bootable(d)

\* C29 amended: as stated, but of a removed generation the modules
\* directory and the backup image are absent, and the generation is not
\* bootable, exactly when no retained generation has its major.minor.patch.
C29_InstalledBootableRemovedGoneUnlessShared ==
    /\ InstallFinished => Bootable(Top.src)
    /\ CleanFinished =>
         \A d \in Top.rmS :
            /\ d \notin sources
            /\ KernelModules(d) \in modules <=> SharedWithRetained(d)
            /\ Exists(KernelBkp(d)) <=> SharedWithRetained(d)
            /\ Bootable(d) <=> SharedWithRetained(d)

\* a clean has removed a generation that was bootable and shares nothing,
\* in a process whose install made the generation it keeps bootable
C29_Witness ==
    /\ CleanFinished
    /\ \E d \in Top.rmS :
         WasBootable(d) /\ ~SharedWithRetained(d) /\ Gone(d)
    /\ \E i \in IssuedByAny("make") :
         trace[i].arg = "modules_install" /\ trace[i].out = "ok"
    /\ Bootable(linux)

\* ------------------------------------------------------------------ build

\* the commands invocation id issued, in the order it issued them
OwnCommands(id) == Commands(SelectSeq(trace, LAMBDA c : c.by = id))

\* a build has parsed its arguments
BuildParsed == Depth > 0 /\ Top.cmd = "build" /\ Top.parsed

\* C31: a successful build of a configured kernel runs make -j <jobs> and
\* then make modules_install, in this order, and runs neither when the
\* config of the kernel is missing: the build fails then.
C31_MakeThenModulesInstall ==
    BuildParsed =>
        /\ (Top.pc = "return" /\ Top.exc = "") =>
             OwnCommands(Top.id) = << <<"make", "-j">>,
                                      <<"make", "modules_install">> >>
        /\ (Top.src \in sources /\ Config \notin srcFiles[Top.src]) =>
             (Top.exc # "" /\ Issued("make", Top.id) = {})

\* -------------------------------------------------------------- configure

\* a configure without -l of a source directory that exists has parsed its
\* arguments
ConfigureParsed ==
    /\ Depth > 0
    /\ Top.cmd = "configure"
    /\ Top.parsed
    /\ ~Top.list
    /\ Top.src \in sources
\* the positions of the trace where the running invocation ran make target
Made(target) == { i \in Issued("make", Top.id) : trace[i].arg = target }
\* the source directory has no config and the current kernel has one
ConfiguresFromCurrent ==
    /\ Config \notin srcFiles[Top.src]
    /\ linux \in sources
    /\ Config \in srcFiles[linux]
\* make oldconfig was run on the copied config, after the new options were
\* stored
RanOldconfig ==
    /\ Made("oldconfig") # {}
    /\ Made("listnewconfig") # {}
    /\ \A i \in Made("oldconfig"), j \in Made("listnewconfig") : j < i
    /\ {Config, NewOptions} \subseteq srcFiles[Top.src]

\* C32: configure without -l copies the config of the current kernel, stores
\* the output of make listnewconfig in .newoptions and runs make oldconfig
\* exactly when the target has no config and the current kernel has one;
\* in every other case it runs make menuconfig; it never runs both.
C32_OldconfigOrMenuconfig ==
    ConfigureParsed =>
        /\ Top.pc = "oldconfig" => ConfiguresFromCurrent
        /\ Top.pc = "menuconfig" => ~ConfiguresFromCurrent
        /\ Made("oldconfig") # {} => (RanOldconfig /\ Made("menuconfig") = {})
        /\ Made("menuconfig") # {} => Made("listnewconfig") = {}
        /\ Top.pc = "return" =>
             Cardinality(Made("oldconfig") \cup Made("menuconfig")) = 1

\* ------------------------------------------------- the re-entrancy flag

\* C33: whenever no mount-guarded command is executing the re-entrancy flag
\* is clear, however the last invocation ended, so that a top-level
\* invocation whose body runs has read the firmware listing itself.
C33_FlagClearBetweenInvocations ==
    /\ stack = <<>> => ~skip
    /\ (Depth = 1 /\ Top.cmd \in Guarded /\ Top.pc = "body") =>
         Issued("efibootmgr", Top.id) # {}

\* ------------------------------------------ the umount on the way out

\* the umount of the finally clause leaves the error of the body as it is
BodyErrorSurvives ==
    (Running("finally") /\ Top.exc # "" /\ Len(stack') = Depth) =>
        stack'[Depth].exc = Top.exc

\* C34: when the body of a mount-guarded command fails and the umount on
\* the way out fails as well, the error that reaches the caller is the
\* error of the body, not the error of the umount.
C34_UmountKeepsBodyError == [][BodyErrorSurvives]_vars

\* ------------------------------------------------ the fallback entry data

\* a top-level mount-guarded invocation has read its listing, which has a
\* current entry and no entry that contains its fallback label
NoFallbackListed ==
    /\ Depth = 1
    /\ Top.cmd \in Guarded
    /\ \E i \in Issued("efibootmgr", Top.id) : trace[i].out = "ok"
    /\ CurrentIndex(result.listing) > 0
    /\ FallbackIndex(result.listing,
         FallbackLabel(result.listing.entries[CurrentIndex(result.listing)].label)) = 0

\* C35: the fallback entry data a command body uses is that of the listing
\* its own invocation read: when that listing has no fallback entry the
\* body starts without a fallback number and image and deletes no firmware
\* entry, whatever earlier invocations of the process recorded or created.
C35_FallbackDataIsOfThisListing ==
    NoFallbackListed =>
        /\ Top.pc = "body" => bkp.keys \cap {"num", "img"} = {}
        /\ Issued("efibootmgr -B", Top.id) = {}

\* ------------------------------------------------- what a clean leaves

\* the generations with a source tree that had their modules directory and
\* their backup image when the body started
BootableBefore == { d \in pre.sources : WasBootable(d) }

\* C36: after every successful non-dry clean, if a bootable generation
\* existed before the run, a bootable generation with its source tree
\* exists afterwards.
C36_BootableGenerationSurvives ==
    (CleanFinished /\ BootableBefore # {}) =>
        \E d \in sources : Bootable(d)

\* a clean has removed bootable generations and has kept one
C36_Witness ==
    /\ CleanFinished
    /\ BootableBefore \ sources # {}
    /\ \E d \in sources : Bootable(d)

\* a clean that is not a dry run has selected what it keeps
CleanSelected ==
    /\ CleanParsed
    /\ ~Top.dry
    /\ Top.pc \notin {"body", "select"}
    /\ Top.exc = ""
\* a generation that clean removes has the major.minor.patch, and so the
\* modules directory and the backup image, of one it retains
RemovedShares(d) == \E r \in Top.kernels : BaseVersion(r) = BaseVersion(d)

\* C37: clean never deletes a modules directory or a backup image that is
\* the one of a retained generation, also when a generation it removes has
\* the same major.minor.patch with another revision and so the very same
\* two paths: of that generation only the source tree is deleted.
C37_SharedPathsOfRetainedAreKept ==
    /\ CleanSelected =>
         \A r \in Top.kernels :
            KernelModules(r) \in modules /\ KernelBkp(r).file \in espFiles
    /\ CleanFinished =>
         \A d \in Top.rmS :
            RemovedShares(d) =>
               /\ d \notin sources
               /\ KernelModules(d) \in modules
               /\ Exists(KernelBkp(d))

\* a clean has removed a generation that shares its two paths with a
\* retained one
C37_Witness ==
    /\ CleanFinished
    /\ \E d \in Top.rmS : RemovedShares(d) /\ WasBootable(d)

\* C38: a clean that is not a dry run completes also when the package
\* manager's cleanup has taken away a source directory that was selected
\* for removal: a selected path that is gone when its turn comes is skipped
\* and is no error.
C38_VanishedPathIsSkipped ==
    (CleanParsed /\ ~Top.dry /\ Top.depcleaned # {}) =>
        Top.exc # "FileNotFoundError: unlink"

\* ----------------------------------------------------------------- commit

\* a commit -n has returned without an error
DryCommitDone ==
    /\ Depth > 0
    /\ Top.cmd = "commit"
    /\ Top.parsed
    /\ Top.dry
    /\ Top.pc = "return"
    /\ Top.exc = ""

\* C39: commit -n leaves the repository as it found it: it creates no
\* commit and leaves nothing staged in the index, neither the config nor
\* the removals of old configs, so that the next commit is not rejected
\* for staged changes.
C39_DryCommitLeavesNothingStaged ==
    DryCommitDone =>
        /\ repo.staged = {}
        /\ \A i \in Issued("git", Top.id) : trace[i].arg # "commit"

\* the number of digits the text ends with
TrailingDigits(s) ==
    Greatest({ n \in 0..Len(s) :
                 \A k \in 0..(n - 1) : IsDigit(s[Len(s) - k]) })

\* C40: whatever source <device path><partition number> findmnt reports for
\* the ESP, install -b hands the device path without the number to the
\* firmware create command as the disk and the trailing number as the
\* partition, also when the device name has digits before that number.
C40_DiskIsPathAndPartIsTrailingNumber ==
    result.status = "device" =>
        LET n == TrailingDigits(device)
        IN  /\ result.err = ""
            /\ result.value.disk = SubSeq(device, 1, Len(device) - n)
            /\ result.value.part =
                   SubSeq(device, Len(device) - n + 1, Len(device))

====
